---- MODULE Spec2Model ----
(***************************************************************************)
(* Model of the PII anonymizer core: EntityMatch validation, the entity   *)
(* resolver (confidence filter and overlap merge), the anonymization and  *)
(* deanonymization transformers, and the in-process LRU cache.            *)
(*                                                                         *)
(* Conventions.  A Python str is a sequence of one-character strings.     *)
(* A confidence is an integer number of tenths (ConfidenceOne is 1.0).    *)
(* An EntityMatch is a record with the fields of the dataclass.  A Python *)
(* dict is a sequence of <<key, value>> pairs in insertion order.         *)
(***************************************************************************)
EXTENDS Integers, Sequences, FiniteSets, TLC

VARIABLES
    pc,               \* position of the request / of the caller
    text,             \* the source text of the request
    threshold,        \* config.confidence_threshold
    detected,         \* detected_entities (result of analyze_async)
    filtered,         \* filtered_entities
    merged,           \* merged_entities
    todo,             \* _anonymize_entities: sorted_entities not yet processed
    anonymized_text,  \* _anonymize_entities: anonymized_text
    entities_map,     \* _anonymize_entities: entities_map
    calls,            \* generate_fake_value calls so far: <<entity, fake>> in call order
    fakePool,         \* the values the configured fake generator can return
    restored,         \* deanonymize_text(...).anonymized_data
    args,             \* arguments of the EntityMatch constructor call
    made,             \* the EntityMatch objects that came into existence
    raised,           \* the exception that reached the caller, "" when none
    maxsize,          \* ThreadSafeLRUCache.maxsize
    _cache,           \* ThreadSafeLRUCache._cache
    _access_order,    \* ThreadSafeLRUCache._access_order
    op,               \* the last cache operation and its arguments
    ret,              \* the value the last cache operation returned
    history,          \* keys by last access (get hit or set), oldest first
    lastSet,          \* per key set since the last clear and not evicted since:
                      \* the value of its most recent set and the value before it
    lock,             \* ThreadSafeLRUCache._lock: the thread that holds it, None when free
    thr,              \* per thread: its position, its operation and what it returned
    lin,              \* the cache after the operations so far, applied one at a time
                      \* in the order in which the lock was taken
    _executor,        \* AsyncPIIAnalyzerEngine._executor is set (inside async with)
    strategy,         \* the cache strategy of the analyzer: "lru" or "none"
    config,           \* the ProcessingConfig of the engine
    request,          \* language and entities of the analyze_async call that took
                      \* the last step, and its caller
    suspended,          \* the analyze_async calls suspended at their await, by the
                      \* number of the call
    trace,            \* what the calls did so far, in order
    result,           \* the ProcessingResult the last call returned: <<>> when none,
                      \* else a sequence of one record
    d_args,           \* deanonymize_text: the text and the form of the map of the call
    d_entities,       \* deanonymize_text: processed_entities not yet replaced
    d_text,           \* deanonymize_text: original_text, the working buffer
    d_origin,         \* per character of d_text, its index in the text of the
                      \* call, 0 for a character written by a replacement
    runs,             \* the finished calls of deanonymize_text, in order
    _redis,           \* RedisCache: the store behind self._redis, a dict from
                      \* the stored key to its bytes and its time to live
    _key_prefix,      \* RedisCache._key_prefix
    _expiration_time, \* RedisCache._expiration_time
    r_args,           \* the arguments and the environment RedisCache was built with
    commands,         \* the commands the last call sent to the Redis client
    r_clear           \* RedisCache.clear: cursor and keys of the loop, and the keys
                      \* the SCAN iteration of the store has not yet returned

vars == <<pc, text, threshold, detected, filtered, merged, todo, anonymized_text,
          entities_map, calls, fakePool, restored, args, made, raised,
          maxsize, _cache, _access_order, op, ret, history, lastSet,
          lock, thr, lin, _executor, strategy, config, request, suspended, trace, result,
          d_args, d_entities, d_text, d_origin, runs,
          _redis, _key_prefix, _expiration_time, r_args, commands, r_clear>>

resolverVars == <<threshold, detected, filtered, merged>>
anonVars == <<todo, anonymized_text, entities_map, calls, fakePool, restored>>
entityVars == <<args, made, raised>>
cacheVars == <<maxsize, _cache, _access_order, op, ret, history, lastSet>>
threadVars == <<lock, thr, lin>>
engineVars == <<_executor, strategy, config, request, suspended, trace, result>>
deanonVars == <<d_args, d_entities, d_text, d_origin, runs>>
redisVars == <<_redis, _key_prefix, _expiration_time, r_args, commands, r_clear>>

----------------------------------------------------------------------------
(* Bounds of the model *)

\* length of the source text, and so the largest end offset of a match
MaxPos == 3
\* largest number of matches in one detection result
MaxEntities == 3
\* number of distinct cache keys
MaxKeys == 3
\* largest maxsize of a cache
MaxSize == 2
\* largest number of calls of one analyzer or one facade
MaxCalls == 3
\* largest number of calls of deanonymize_text on one map
MaxRuns == 3
\* largest number of answers of SCAN in one clear that bring the iteration no further
MaxEmptyScans == 1

\* 1.0 in tenths
ConfidenceOne == 10

None == "None"

----------------------------------------------------------------------------
(* Python helpers *)

Min(a, b) == IF a <= b THEN a ELSE b

\* s[a:b] for 0 <= a, 0 <= b (out-of-range offsets are clamped, never fail)
Slice(s, a, b) == SubSeq(s, Min(a, Len(s)) + 1, Min(b, Len(s)))

\* s[:b]
SliceTo(s, b) == Slice(s, 0, b)

\* s[a:]
SliceFrom(s, a) == Slice(s, a, Len(s))

SeqsUpTo(S, n) == UNION {[1..k -> S] : k \in 0..n}

Range(s) == {s[i] : i \in DOMAIN s}

----------------------------------------------------------------------------
(* core.py: EntityMatch *)

\* faulty variant: an empty span (end = start) passes the position check
InvalidPositionAllowsEmpty(start, end) == start < 0 \/ end < start

\* the first check of __post_init__: the position is invalid
InvalidPosition(start, end) == start < 0 \/ end <= start

\* the second check of __post_init__: the confidence is invalid
InvalidConfidence(confidence) == ~(0 <= confidence /\ confidence <= ConfidenceOne)

\* the exception EntityMatch(...) raises, "" when construction succeeds
PostInitError(start, end, confidence) ==
    IF InvalidPosition(start, end) THEN "ValueError: Invalid entity position"
    ELSE IF InvalidConfidence(confidence)
         THEN "ValueError: Confidence must be between 0 and 1"
         ELSE ""

EntityMatch(entity_type, start, end, txt, confidence) ==
    [entity_type |-> entity_type, start |-> start, end |-> end,
     text |-> txt, confidence |-> confidence]

\* faulty variant: chunk_size is not checked
PostInitErrorNoChunkSize(confidence_threshold, max_workers, chunk_size) ==
    IF ~(0 <= confidence_threshold /\ confidence_threshold <= ConfidenceOne)
    THEN "ValueError: Confidence threshold must be between 0 and 1"
    ELSE IF max_workers < 1 THEN "ValueError: max_workers must be at least 1"
         ELSE ""

\* the exception ProcessingConfig(...) raises in __post_init__, "" when none
ProcessingConfigError(confidence_threshold, max_workers, chunk_size) ==
    IF ~(0 <= confidence_threshold /\ confidence_threshold <= ConfidenceOne)
    THEN "ValueError: Confidence threshold must be between 0 and 1"
    ELSE IF max_workers < 1 THEN "ValueError: max_workers must be at least 1"
         ELSE IF chunk_size < 100 THEN "ValueError: chunk_size must be at least 100"
              ELSE ""

ProcessingResult(anonymized_data, map, total_entities) ==
    [anonymized_data |-> anonymized_data, entities_map |-> map,
     total_entities |-> total_entities]

----------------------------------------------------------------------------
(* processing.py: the entity resolver *)

\* faulty variant: the comparison is strict, a match at the threshold is dropped
FilterStrictlyAbove(entities, confidence_threshold) ==
    SelectSeq(entities, LAMBDA e : e.confidence > confidence_threshold)

\* _filter_entities: [e for e in entities if e.confidence >= threshold]
_filter_entities(entities, confidence_threshold) ==
    SelectSeq(entities, LAMBDA e : e.confidence >= confidence_threshold)

\* one insertion of the stable sort: e goes after every element whose start
\* is not larger than its own
InsertByStart(s, e) ==
    LET k == Cardinality({i \in DOMAIN s : s[i].start <= e.start})
    IN  SubSeq(s, 1, k) \o <<e>> \o SubSeq(s, k + 1, Len(s))

RECURSIVE SortedByStart(_)
\* sorted(entities, key=lambda x: x.start): stable, ascending
SortedByStart(entities) ==
    IF entities = <<>> THEN <<>>
    ELSE InsertByStart(SortedByStart(SubSeq(entities, 1, Len(entities) - 1)),
                       entities[Len(entities)])

\* faulty variant: overlap is tested against the start of the last accepted match
MergeStepAgainstStart(acc, current) ==
    LET last == acc[Len(acc)]
    IN  IF current.start < last.start
        THEN IF current.confidence > last.confidence
             THEN [acc EXCEPT ![Len(acc)] = current]
             ELSE acc
        ELSE Append(acc, current)

\* faulty variant: on equal confidence the candidate replaces the first-seen match
MergeStepTieReplaces(acc, current) ==
    LET last == acc[Len(acc)]
    IN  IF current.start < last.end
        THEN IF current.confidence >= last.confidence
             THEN [acc EXCEPT ![Len(acc)] = current]
             ELSE acc
        ELSE Append(acc, current)

\* faulty variant: a candidate that starts where the last accepted match ends overlaps
MergeStepTouchingOverlaps(acc, current) ==
    LET last == acc[Len(acc)]
    IN  IF current.start <= last.end
        THEN IF current.confidence > last.confidence
             THEN [acc EXCEPT ![Len(acc)] = current]
             ELSE acc
        ELSE Append(acc, current)

\* faulty variant: the first-seen match is kept whatever the confidences
MergeStepKeepsFirst(acc, current) ==
    LET last == acc[Len(acc)]
    IN  IF current.start < last.end
        THEN acc
        ELSE Append(acc, current)

\* the body of the loop of _merge_overlapping_entities
MergeStep(acc, current) ==
    LET last == acc[Len(acc)]
    IN  IF current.start < last.end
        THEN IF current.confidence > last.confidence
             THEN [acc EXCEPT ![Len(acc)] = current]
             ELSE acc
        ELSE Append(acc, current)

RECURSIVE MergeLoop(_, _)
\* merged after the loop has consumed sorted_entities[1..k], k >= 1
MergeLoop(sorted_entities, k) ==
    IF k = 1 THEN <<sorted_entities[1]>>
    ELSE MergeStep(MergeLoop(sorted_entities, k - 1), sorted_entities[k])

_merge_overlapping_entities(entities) ==
    IF entities = <<>> THEN <<>>
    ELSE MergeLoop(SortedByStart(entities), Len(entities))

----------------------------------------------------------------------------
(* fake_generator.py *)

\* f"{entity_type}" and f"{language}": the characters of the name
Chars(name) ==
    CASE name = "PERSON" -> <<"P", "E", "R", "S", "O", "N">>
      [] name = "LOCATION" -> <<"L", "O", "C", "A", "T", "I", "O", "N">>
      [] name = "US_SSN" -> <<"U", "S", "_", "S", "S", "N">>
      [] name = "UNKNOWN_TYPE" ->
            <<"U", "N", "K", "N", "O", "W", "N", "_", "T", "Y", "P", "E">>
      [] name = "en" -> <<"e", "n">>
      [] name = "de" -> <<"d", "e">>

\* hashlib.sha256(hash_input.encode()).hexdigest() for the hash inputs of the
\* model: the 64 hex digits SHA-256 gives for each of them
Sha256Table ==
    (<<"P", "E", "R", "S", "O", "N", ":", "a">> :> <<"f", "3", "3", "4", "d", "2", "9", "0", "3", "b", "8", "3", "7", "f", "e", "5", "1", "2", "f", "0", "e", "6", "e", "9", "8", "6", "1", "d", "f", "9", "c", "a", "f", "c", "e", "9", "1", "0", "a", "3", "c", "3", "0", "2", "f", "f", "9", "9", "a", "7", "4", "c", "6", "3", "d", "4", "4", "7", "4", "d", "d", "a", "a", "0">>) @@
    (<<"P", "E", "R", "S", "O", "N", ":", "b">> :> <<"9", "d", "1", "0", "9", "c", "1", "3", "d", "8", "a", "8", "0", "e", "9", "f", "3", "d", "3", "0", "2", "d", "e", "2", "1", "8", "d", "0", "8", "7", "f", "a", "b", "c", "e", "1", "4", "6", "4", "8", "7", "7", "b", "c", "f", "4", "4", "a", "9", "7", "8", "5", "6", "c", "7", "a", "0", "d", "4", "a", "0", "7", "8", "3">>) @@
    (<<"P", "E", "R", "S", "O", "N", ":", "a", "a">> :> <<"8", "c", "4", "6", "a", "2", "6", "a", "b", "7", "7", "6", "5", "f", "f", "0", "4", "9", "c", "0", "b", "a", "0", "e", "d", "0", "c", "6", "a", "0", "7", "5", "8", "d", "4", "1", "a", "9", "e", "4", "8", "7", "6", "4", "2", "4", "3", "a", "f", "d", "7", "a", "5", "a", "8", "a", "0", "9", "5", "b", "1", "c", "1", "8">>) @@
    (<<"P", "E", "R", "S", "O", "N", ":", "a", "b">> :> <<"c", "b", "8", "b", "d", "8", "e", "5", "a", "0", "d", "d", "e", "c", "0", "5", "2", "d", "c", "3", "e", "a", "c", "7", "6", "5", "e", "a", "2", "9", "a", "7", "4", "5", "8", "e", "9", "9", "2", "2", "3", "9", "0", "3", "3", "3", "9", "1", "a", "0", "b", "8", "e", "c", "3", "6", "9", "8", "0", "b", "a", "8", "9", "a">>) @@
    (<<"P", "E", "R", "S", "O", "N", ":", "b", "a">> :> <<"0", "0", "1", "7", "4", "9", "1", "e", "9", "6", "f", "6", "8", "c", "5", "d", "e", "6", "9", "9", "3", "a", "1", "b", "c", "a", "f", "e", "6", "1", "c", "3", "6", "b", "f", "1", "8", "c", "d", "b", "1", "5", "5", "d", "9", "0", "9", "2", "f", "6", "3", "8", "e", "3", "2", "a", "7", "3", "4", "f", "e", "4", "8", "b">>) @@
    (<<"P", "E", "R", "S", "O", "N", ":", "b", "b">> :> <<"6", "d", "2", "2", "e", "9", "a", "c", "f", "c", "f", "e", "2", "8", "a", "8", "e", "3", "d", "0", "0", "1", "5", "4", "d", "c", "3", "2", "d", "c", "a", "5", "a", "4", "c", "8", "1", "6", "a", "c", "6", "3", "0", "0", "4", "0", "f", "2", "7", "b", "6", "5", "c", "0", "c", "e", "2", "2", "d", "2", "8", "5", "2", "0">>) @@
    (<<"P", "E", "R", "S", "O", "N", ":", "a", "a", "a">> :> <<"a", "7", "3", "1", "2", "2", "a", "8", "c", "9", "4", "e", "f", "b", "0", "3", "1", "6", "8", "d", "2", "b", "2", "3", "a", "e", "2", "4", "2", "1", "f", "1", "1", "1", "a", "f", "2", "e", "0", "9", "b", "6", "9", "b", "c", "7", "8", "b", "a", "c", "7", "b", "4", "c", "5", "1", "c", "0", "3", "c", "0", "d", "0", "c">>) @@
    (<<"P", "E", "R", "S", "O", "N", ":", "a", "a", "b">> :> <<"c", "5", "1", "1", "c", "5", "c", "3", "1", "4", "0", "a", "c", "1", "5", "c", "d", "d", "f", "d", "1", "3", "4", "6", "9", "8", "6", "9", "3", "8", "3", "a", "0", "a", "4", "c", "4", "7", "8", "0", "4", "e", "4", "9", "b", "3", "4", "a", "1", "5", "f", "c", "a", "4", "3", "7", "0", "b", "1", "5", "6", "0", "b", "8">>) @@
    (<<"P", "E", "R", "S", "O", "N", ":", "a", "b", "a">> :> <<"7", "0", "4", "3", "3", "b", "3", "6", "5", "6", "d", "e", "8", "c", "f", "0", "b", "d", "3", "4", "7", "5", "e", "9", "7", "7", "a", "3", "e", "4", "8", "a", "a", "3", "1", "0", "0", "3", "0", "d", "5", "7", "5", "e", "2", "e", "0", "0", "5", "6", "8", "2", "0", "d", "8", "5", "f", "9", "8", "7", "9", "d", "a", "4">>) @@
    (<<"P", "E", "R", "S", "O", "N", ":", "a", "b", "b">> :> <<"6", "c", "6", "1", "6", "0", "f", "5", "e", "1", "d", "2", "6", "2", "8", "e", "6", "0", "e", "6", "8", "3", "a", "8", "1", "9", "6", "5", "1", "b", "8", "8", "a", "9", "f", "0", "2", "5", "9", "4", "c", "1", "0", "7", "7", "a", "f", "5", "2", "1", "e", "0", "2", "a", "7", "6", "d", "8", "b", "4", "8", "e", "d", "f">>) @@
    (<<"P", "E", "R", "S", "O", "N", ":", "b", "a", "a">> :> <<"5", "d", "e", "7", "5", "f", "7", "6", "9", "2", "7", "2", "6", "e", "d", "d", "7", "4", "b", "5", "9", "0", "a", "5", "4", "e", "c", "b", "3", "3", "2", "4", "f", "d", "a", "b", "d", "4", "e", "a", "9", "e", "4", "1", "2", "7", "b", "2", "4", "f", "0", "3", "c", "a", "8", "f", "c", "3", "6", "0", "e", "f", "c", "a">>) @@
    (<<"P", "E", "R", "S", "O", "N", ":", "b", "a", "b">> :> <<"5", "b", "f", "b", "b", "a", "5", "8", "f", "3", "0", "5", "2", "a", "3", "d", "1", "5", "f", "3", "1", "6", "2", "e", "9", "6", "6", "2", "e", "9", "2", "b", "c", "1", "0", "6", "a", "6", "7", "e", "f", "c", "9", "e", "b", "9", "3", "e", "1", "e", "b", "d", "7", "d", "3", "e", "1", "0", "3", "a", "1", "2", "1", "d">>) @@
    (<<"P", "E", "R", "S", "O", "N", ":", "b", "b", "a">> :> <<"e", "4", "c", "6", "a", "3", "0", "4", "0", "6", "6", "5", "3", "b", "9", "d", "c", "a", "4", "b", "4", "6", "e", "1", "e", "2", "b", "5", "5", "4", "d", "a", "e", "b", "9", "a", "5", "5", "5", "5", "6", "b", "3", "1", "5", "a", "f", "5", "1", "5", "f", "9", "d", "2", "e", "d", "6", "f", "d", "6", "8", "9", "0", "b">>) @@
    (<<"P", "E", "R", "S", "O", "N", ":", "b", "b", "b">> :> <<"7", "f", "e", "4", "2", "f", "c", "6", "e", "d", "3", "6", "7", "9", "f", "a", "6", "d", "3", "b", "1", "e", "5", "1", "f", "a", "2", "c", "d", "e", "b", "9", "e", "7", "2", "c", "6", "1", "a", "c", "7", "8", "a", "2", "1", "f", "9", "2", "d", "a", "c", "f", "e", "4", "0", "9", "a", "9", "a", "8", "a", "f", "a", "1">>) @@
    (<<"P", "E", "R", "S", "O", "N", ":", "a", "a", "a", "a">> :> <<"a", "5", "5", "2", "4", "9", "0", "e", "2", "5", "5", "d", "5", "8", "3", "1", "5", "3", "8", "8", "7", "2", "b", "b", "1", "f", "7", "c", "2", "4", "0", "0", "6", "0", "e", "2", "4", "a", "9", "e", "7", "1", "1", "3", "5", "9", "f", "d", "c", "c", "8", "e", "e", "1", "9", "a", "2", "8", "6", "3", "f", "2", "3", "8">>) @@
    (<<"P", "E", "R", "S", "O", "N", ":", "a", "a", "a", "b">> :> <<"1", "b", "8", "d", "3", "a", "c", "7", "6", "6", "8", "a", "0", "a", "5", "d", "d", "9", "0", "e", "0", "8", "a", "9", "f", "c", "d", "7", "1", "b", "2", "d", "6", "d", "6", "7", "a", "2", "6", "4", "6", "a", "8", "9", "0", "3", "c", "3", "7", "f", "7", "e", "4", "8", "9", "3", "2", "0", "1", "d", "5", "7", "1", "c">>) @@
    (<<"P", "E", "R", "S", "O", "N", ":", "a", "a", "b", "a">> :> <<"8", "f", "1", "1", "0", "d", "9", "3", "c", "a", "e", "e", "5", "2", "1", "9", "6", "5", "a", "e", "7", "4", "1", "c", "c", "3", "8", "0", "2", "c", "a", "9", "6", "1", "e", "3", "a", "3", "8", "c", "2", "8", "d", "c", "3", "d", "2", "a", "3", "a", "7", "b", "b", "1", "5", "b", "4", "a", "9", "3", "0", "a", "7", "2">>) @@
    (<<"P", "E", "R", "S", "O", "N", ":", "a", "a", "b", "b">> :> <<"c", "9", "6", "5", "b", "c", "8", "2", "c", "f", "0", "0", "b", "4", "7", "6", "b", "6", "4", "1", "9", "7", "2", "f", "3", "3", "c", "7", "3", "3", "4", "a", "4", "e", "8", "3", "2", "0", "d", "e", "f", "f", "d", "e", "8", "e", "2", "d", "0", "4", "1", "5", "7", "4", "2", "5", "b", "d", "8", "9", "c", "8", "7", "7">>) @@
    (<<"P", "E", "R", "S", "O", "N", ":", "a", "b", "a", "a">> :> <<"9", "e", "5", "1", "e", "2", "a", "e", "7", "a", "a", "4", "c", "5", "9", "a", "e", "2", "6", "4", "8", "2", "b", "7", "b", "e", "5", "8", "a", "a", "d", "b", "3", "3", "1", "b", "1", "1", "b", "a", "2", "9", "b", "0", "6", "6", "d", "a", "f", "6", "9", "8", "e", "a", "d", "4", "d", "9", "4", "a", "3", "2", "4", "b">>) @@
    (<<"P", "E", "R", "S", "O", "N", ":", "a", "b", "a", "b">> :> <<"a", "8", "f", "4", "7", "d", "8", "2", "7", "3", "1", "c", "d", "1", "2", "5", "6", "f", "e", "e", "e", "f", "4", "f", "0", "e", "a", "4", "3", "9", "0", "1", "4", "7", "f", "8", "2", "f", "f", "7", "2", "b", "f", "f", "4", "8", "9", "f", "5", "7", "2", "c", "8", "a", "5", "f", "8", "4", "5", "0", "3", "5", "8", "d">>) @@
    (<<"P", "E", "R", "S", "O", "N", ":", "a", "b", "b", "a">> :> <<"6", "1", "2", "8", "e", "f", "5", "d", "3", "5", "1", "7", "5", "3", "0", "4", "e", "0", "5", "a", "c", "6", "f", "c", "5", "6", "e", "4", "4", "6", "a", "3", "0", "d", "a", "c", "f", "5", "3", "3", "9", "9", "5", "e", "4", "7", "a", "b", "c", "8", "7", "8", "5", "9", "3", "6", "8", "c", "2", "b", "d", "5", "9", "0">>) @@
    (<<"P", "E", "R", "S", "O", "N", ":", "a", "b", "b", "b">> :> <<"b", "c", "7", "a", "f", "f", "b", "a", "9", "f", "1", "f", "4", "0", "5", "1", "9", "8", "0", "3", "0", "3", "f", "a", "9", "e", "b", "4", "b", "0", "e", "d", "3", "3", "8", "b", "9", "5", "b", "4", "c", "c", "9", "3", "2", "4", "f", "e", "9", "1", "e", "d", "6", "f", "5", "5", "9", "b", "9", "f", "f", "8", "2", "6">>) @@
    (<<"P", "E", "R", "S", "O", "N", ":", "b", "a", "a", "a">> :> <<"a", "3", "2", "d", "b", "7", "b", "f", "7", "d", "d", "0", "0", "f", "d", "2", "f", "9", "2", "3", "2", "3", "4", "4", "8", "0", "c", "7", "a", "7", "2", "d", "a", "9", "5", "9", "8", "c", "9", "c", "e", "a", "0", "4", "2", "a", "2", "e", "d", "7", "d", "f", "f", "1", "a", "1", "e", "5", "0", "9", "5", "2", "a", "8">>) @@
    (<<"P", "E", "R", "S", "O", "N", ":", "b", "a", "a", "b">> :> <<"b", "3", "2", "9", "6", "5", "1", "0", "3", "7", "d", "c", "9", "7", "3", "0", "0", "f", "e", "a", "e", "2", "e", "0", "3", "a", "7", "e", "2", "2", "e", "e", "7", "8", "c", "e", "9", "0", "e", "8", "d", "6", "4", "6", "9", "5", "b", "1", "4", "3", "1", "c", "5", "1", "5", "8", "d", "1", "2", "1", "b", "6", "9", "2">>) @@
    (<<"P", "E", "R", "S", "O", "N", ":", "b", "a", "b", "a">> :> <<"7", "0", "9", "2", "2", "7", "3", "8", "5", "c", "9", "8", "a", "1", "e", "e", "5", "5", "a", "d", "e", "1", "0", "2", "6", "8", "1", "7", "d", "c", "6", "f", "8", "a", "6", "a", "b", "7", "8", "1", "8", "1", "b", "2", "d", "8", "f", "a", "e", "e", "6", "0", "4", "5", "d", "2", "c", "a", "1", "d", "9", "6", "0", "b">>) @@
    (<<"P", "E", "R", "S", "O", "N", ":", "b", "a", "b", "b">> :> <<"b", "d", "b", "1", "f", "d", "c", "c", "8", "f", "d", "5", "6", "8", "c", "2", "c", "d", "5", "a", "9", "d", "a", "c", "5", "8", "5", "6", "2", "7", "8", "8", "c", "b", "9", "e", "c", "2", "1", "a", "1", "0", "9", "a", "7", "d", "4", "4", "3", "b", "9", "5", "6", "f", "c", "a", "4", "9", "0", "4", "1", "5", "e", "2">>) @@
    (<<"P", "E", "R", "S", "O", "N", ":", "b", "b", "a", "a">> :> <<"1", "2", "7", "1", "0", "1", "a", "e", "8", "1", "4", "d", "4", "8", "5", "8", "a", "8", "4", "e", "4", "6", "8", "8", "2", "f", "2", "3", "e", "b", "9", "5", "2", "4", "f", "5", "c", "b", "d", "c", "8", "2", "8", "9", "f", "a", "4", "9", "a", "9", "3", "a", "7", "c", "e", "9", "5", "f", "c", "1", "6", "f", "9", "4">>) @@
    (<<"P", "E", "R", "S", "O", "N", ":", "b", "b", "a", "b">> :> <<"6", "5", "7", "e", "3", "5", "c", "0", "6", "7", "a", "1", "c", "f", "2", "e", "1", "a", "5", "a", "a", "f", "0", "c", "0", "b", "8", "d", "3", "c", "b", "9", "f", "9", "3", "7", "9", "c", "1", "4", "c", "e", "b", "1", "6", "f", "f", "9", "6", "a", "7", "5", "1", "a", "c", "f", "1", "7", "7", "e", "6", "6", "3", "7">>) @@
    (<<"P", "E", "R", "S", "O", "N", ":", "b", "b", "b", "a">> :> <<"d", "1", "1", "e", "3", "0", "8", "a", "d", "f", "2", "7", "8", "a", "2", "f", "3", "2", "5", "7", "9", "c", "c", "6", "6", "d", "7", "6", "a", "d", "a", "e", "a", "9", "2", "c", "c", "c", "0", "7", "e", "a", "f", "a", "4", "c", "e", "7", "1", "8", "f", "a", "f", "5", "9", "9", "2", "c", "6", "4", "6", "2", "1", "5">>) @@
    (<<"P", "E", "R", "S", "O", "N", ":", "b", "b", "b", "b">> :> <<"2", "f", "2", "c", "8", "9", "f", "3", "1", "2", "3", "e", "6", "c", "8", "4", "4", "2", "5", "8", "c", "5", "b", "9", "0", "b", "a", "2", "9", "b", "f", "c", "2", "7", "7", "c", "b", "3", "6", "2", "3", "d", "1", "f", "8", "f", "b", "8", "2", "b", "b", "5", "4", "8", "f", "6", "f", "c", "1", "d", "b", "c", "5", "e">>) @@
    (<<"L", "O", "C", "A", "T", "I", "O", "N", ":", "a">> :> <<"3", "0", "8", "d", "a", "0", "b", "a", "1", "0", "d", "2", "6", "9", "0", "f", "4", "3", "8", "5", "d", "9", "4", "5", "9", "c", "a", "0", "2", "8", "c", "0", "2", "7", "6", "5", "c", "0", "d", "c", "2", "0", "d", "d", "3", "9", "4", "3", "b", "8", "a", "1", "f", "c", "8", "b", "d", "1", "5", "3", "c", "a", "8", "1">>) @@
    (<<"L", "O", "C", "A", "T", "I", "O", "N", ":", "b">> :> <<"4", "d", "1", "9", "0", "d", "9", "3", "2", "9", "8", "2", "5", "6", "6", "2", "4", "3", "3", "8", "6", "4", "a", "c", "5", "9", "e", "a", "9", "b", "2", "9", "5", "1", "9", "e", "4", "3", "c", "a", "6", "0", "3", "8", "b", "2", "5", "7", "d", "f", "0", "d", "9", "0", "8", "8", "c", "0", "2", "5", "c", "e", "d", "d">>) @@
    (<<"L", "O", "C", "A", "T", "I", "O", "N", ":", "a", "a">> :> <<"3", "d", "0", "7", "1", "6", "c", "5", "7", "9", "6", "6", "6", "8", "4", "f", "a", "0", "6", "1", "1", "e", "f", "b", "1", "a", "7", "5", "0", "b", "d", "8", "6", "b", "9", "c", "b", "b", "6", "4", "8", "8", "8", "e", "7", "5", "c", "4", "1", "e", "4", "4", "7", "2", "4", "1", "8", "a", "2", "f", "4", "6", "6", "d">>) @@
    (<<"L", "O", "C", "A", "T", "I", "O", "N", ":", "a", "b">> :> <<"c", "5", "1", "1", "1", "3", "4", "c", "c", "0", "c", "2", "7", "5", "2", "f", "6", "f", "0", "e", "e", "7", "a", "3", "1", "8", "1", "1", "9", "e", "c", "7", "f", "b", "8", "9", "d", "f", "3", "8", "0", "c", "8", "7", "3", "9", "0", "7", "b", "9", "2", "6", "c", "1", "a", "4", "4", "2", "7", "8", "0", "b", "8", "7">>) @@
    (<<"L", "O", "C", "A", "T", "I", "O", "N", ":", "b", "a">> :> <<"3", "e", "9", "a", "d", "1", "5", "4", "e", "c", "8", "5", "9", "e", "6", "1", "5", "a", "d", "3", "7", "1", "5", "d", "4", "a", "d", "c", "a", "3", "6", "3", "8", "6", "5", "6", "f", "0", "f", "0", "1", "8", "0", "c", "6", "f", "3", "1", "4", "1", "8", "4", "1", "c", "3", "9", "2", "b", "3", "6", "3", "1", "7", "e">>) @@
    (<<"L", "O", "C", "A", "T", "I", "O", "N", ":", "b", "b">> :> <<"3", "1", "c", "f", "f", "2", "a", "6", "c", "e", "5", "5", "6", "5", "d", "b", "a", "8", "b", "4", "8", "a", "5", "5", "f", "8", "f", "8", "3", "1", "7", "3", "8", "6", "6", "7", "d", "d", "9", "6", "2", "9", "b", "4", "2", "9", "c", "3", "5", "1", "5", "e", "1", "a", "d", "5", "b", "a", "b", "d", "3", "d", "9", "9">>) @@
    (<<"L", "O", "C", "A", "T", "I", "O", "N", ":", "a", "a", "a">> :> <<"e", "a", "d", "0", "d", "9", "4", "a", "1", "5", "d", "6", "7", "1", "8", "4", "a", "0", "3", "9", "2", "a", "4", "3", "e", "4", "9", "d", "5", "3", "a", "a", "2", "4", "b", "2", "9", "e", "2", "e", "0", "9", "0", "a", "4", "c", "f", "6", "f", "5", "9", "7", "6", "3", "3", "7", "2", "1", "1", "e", "8", "7", "a", "a">>) @@
    (<<"L", "O", "C", "A", "T", "I", "O", "N", ":", "a", "a", "b">> :> <<"9", "a", "b", "5", "9", "8", "b", "c", "8", "9", "4", "a", "6", "3", "0", "e", "f", "c", "a", "7", "c", "c", "6", "3", "8", "b", "1", "a", "8", "9", "b", "b", "4", "7", "c", "3", "d", "8", "0", "c", "c", "4", "4", "c", "2", "7", "7", "a", "5", "0", "7", "5", "9", "d", "d", "7", "1", "f", "0", "9", "2", "a", "5", "8">>) @@
    (<<"L", "O", "C", "A", "T", "I", "O", "N", ":", "a", "b", "a">> :> <<"3", "5", "9", "a", "d", "d", "1", "d", "f", "b", "0", "8", "1", "2", "e", "c", "a", "8", "a", "3", "4", "1", "4", "a", "1", "b", "9", "7", "a", "2", "0", "3", "a", "8", "f", "2", "3", "f", "8", "d", "c", "4", "d", "1", "d", "e", "f", "2", "3", "9", "b", "1", "6", "4", "2", "c", "9", "7", "0", "5", "6", "4", "9", "4">>) @@
    (<<"L", "O", "C", "A", "T", "I", "O", "N", ":", "a", "b", "b">> :> <<"2", "c", "6", "7", "c", "5", "6", "7", "0", "0", "a", "f", "d", "2", "5", "2", "6", "7", "e", "4", "f", "b", "f", "d", "9", "5", "f", "f", "3", "f", "4", "e", "6", "1", "2", "f", "e", "0", "9", "f", "0", "1", "7", "a", "c", "7", "1", "9", "0", "f", "a", "c", "9", "5", "6", "2", "9", "f", "f", "8", "8", "e", "d", "9">>) @@
    (<<"L", "O", "C", "A", "T", "I", "O", "N", ":", "b", "a", "a">> :> <<"0", "3", "8", "2", "8", "b", "5", "7", "f", "c", "7", "5", "7", "a", "6", "2", "d", "7", "6", "a", "4", "5", "7", "4", "6", "6", "5", "1", "3", "2", "8", "c", "a", "3", "6", "7", "c", "9", "c", "3", "f", "c", "4", "4", "5", "6", "0", "0", "9", "1", "e", "d", "c", "d", "4", "4", "f", "c", "8", "4", "7", "1", "d", "8">>) @@
    (<<"L", "O", "C", "A", "T", "I", "O", "N", ":", "b", "a", "b">> :> <<"0", "7", "9", "0", "a", "2", "a", "9", "2", "5", "0", "1", "5", "1", "4", "d", "0", "9", "7", "0", "a", "d", "a", "6", "c", "6", "3", "5", "4", "6", "4", "9", "9", "1", "0", "3", "d", "a", "6", "7", "1", "8", "0", "4", "9", "0", "d", "e", "7", "f", "c", "c", "5", "3", "7", "5", "9", "6", "e", "c", "a", "6", "9", "f">>) @@
    (<<"L", "O", "C", "A", "T", "I", "O", "N", ":", "b", "b", "a">> :> <<"c", "9", "8", "2", "2", "2", "1", "b", "c", "3", "2", "a", "3", "8", "d", "a", "d", "7", "b", "1", "b", "e", "b", "0", "f", "c", "5", "a", "f", "9", "5", "6", "4", "b", "7", "3", "4", "f", "8", "8", "4", "3", "b", "1", "d", "c", "d", "a", "6", "4", "e", "8", "a", "3", "9", "c", "b", "4", "7", "8", "7", "3", "5", "e">>) @@
    (<<"L", "O", "C", "A", "T", "I", "O", "N", ":", "b", "b", "b">> :> <<"7", "1", "9", "d", "a", "1", "4", "f", "c", "1", "5", "6", "6", "8", "4", "7", "d", "3", "f", "6", "d", "6", "d", "c", "a", "1", "a", "0", "3", "a", "0", "6", "3", "e", "5", "0", "c", "6", "6", "0", "2", "2", "5", "4", "f", "c", "2", "d", "6", "9", "0", "d", "e", "e", "2", "a", "8", "2", "0", "2", "8", "e", "e", "a">>) @@
    (<<"L", "O", "C", "A", "T", "I", "O", "N", ":", "a", "a", "a", "a">> :> <<"a", "d", "f", "d", "e", "b", "7", "d", "8", "8", "7", "8", "d", "3", "9", "d", "7", "1", "7", "8", "c", "d", "3", "0", "8", "2", "2", "a", "f", "0", "5", "b", "5", "a", "a", "6", "1", "7", "3", "3", "f", "5", "5", "a", "4", "1", "5", "0", "3", "6", "e", "a", "f", "2", "d", "1", "8", "6", "f", "a", "c", "1", "3", "5">>) @@
    (<<"L", "O", "C", "A", "T", "I", "O", "N", ":", "a", "a", "a", "b">> :> <<"8", "b", "6", "8", "0", "c", "6", "a", "4", "7", "2", "d", "1", "a", "9", "8", "5", "8", "5", "0", "0", "2", "e", "f", "9", "c", "8", "5", "e", "9", "b", "b", "9", "0", "5", "1", "1", "7", "8", "9", "d", "e", "d", "d", "4", "3", "3", "4", "2", "3", "d", "1", "8", "8", "c", "9", "e", "0", "d", "b", "f", "1", "c", "c">>) @@
    (<<"L", "O", "C", "A", "T", "I", "O", "N", ":", "a", "a", "b", "a">> :> <<"4", "c", "e", "8", "9", "2", "d", "9", "9", "c", "2", "7", "0", "9", "4", "8", "7", "3", "3", "c", "f", "0", "2", "5", "9", "c", "e", "e", "3", "7", "d", "e", "f", "5", "6", "2", "a", "0", "0", "2", "d", "0", "a", "8", "b", "4", "6", "1", "e", "5", "9", "0", "7", "3", "b", "2", "0", "7", "8", "8", "3", "8", "2", "0">>) @@
    (<<"L", "O", "C", "A", "T", "I", "O", "N", ":", "a", "a", "b", "b">> :> <<"f", "6", "d", "8", "4", "1", "5", "0", "5", "f", "7", "2", "b", "c", "9", "a", "8", "7", "b", "6", "6", "4", "7", "8", "9", "4", "d", "9", "1", "4", "7", "d", "a", "9", "0", "8", "5", "d", "9", "5", "1", "5", "2", "b", "2", "b", "c", "1", "e", "3", "c", "9", "d", "5", "c", "7", "3", "a", "7", "2", "d", "c", "d", "b">>) @@
    (<<"L", "O", "C", "A", "T", "I", "O", "N", ":", "a", "b", "a", "a">> :> <<"b", "c", "3", "b", "a", "2", "7", "1", "3", "c", "4", "a", "9", "a", "b", "d", "c", "5", "6", "7", "4", "e", "0", "c", "6", "b", "3", "0", "9", "c", "2", "4", "5", "0", "1", "4", "1", "b", "d", "2", "8", "d", "9", "8", "a", "4", "c", "3", "f", "a", "c", "4", "8", "b", "3", "a", "6", "d", "8", "1", "c", "4", "2", "c">>) @@
    (<<"L", "O", "C", "A", "T", "I", "O", "N", ":", "a", "b", "a", "b">> :> <<"f", "1", "9", "6", "0", "0", "3", "d", "3", "e", "1", "e", "6", "6", "1", "2", "e", "e", "7", "d", "f", "4", "5", "a", "7", "5", "4", "3", "b", "b", "a", "c", "0", "b", "5", "a", "3", "b", "a", "8", "4", "d", "f", "f", "9", "d", "1", "b", "7", "1", "e", "9", "5", "9", "5", "c", "2", "7", "1", "6", "3", "d", "2", "5">>) @@
    (<<"L", "O", "C", "A", "T", "I", "O", "N", ":", "a", "b", "b", "a">> :> <<"8", "4", "f", "8", "c", "7", "9", "1", "c", "b", "3", "e", "1", "a", "e", "3", "b", "0", "9", "a", "4", "f", "c", "3", "f", "d", "3", "c", "7", "6", "a", "9", "8", "7", "9", "3", "1", "e", "f", "0", "9", "c", "f", "4", "4", "4", "3", "5", "e", "a", "0", "e", "6", "0", "4", "9", "f", "0", "9", "9", "2", "3", "2", "3">>) @@
    (<<"L", "O", "C", "A", "T", "I", "O", "N", ":", "a", "b", "b", "b">> :> <<"e", "0", "d", "1", "1", "3", "2", "e", "5", "3", "9", "6", "c", "7", "5", "6", "9", "0", "5", "1", "a", "c", "d", "a", "4", "5", "3", "0", "4", "b", "e", "c", "5", "9", "9", "7", "d", "3", "d", "7", "a", "9", "9", "8", "f", "4", "0", "b", "5", "a", "a", "5", "6", "2", "8", "8", "9", "4", "9", "3", "2", "7", "c", "8">>) @@
    (<<"L", "O", "C", "A", "T", "I", "O", "N", ":", "b", "a", "a", "a">> :> <<"a", "2", "a", "6", "b", "d", "3", "7", "b", "4", "c", "0", "8", "a", "f", "f", "c", "2", "a", "8", "3", "e", "8", "2", "2", "f", "c", "5", "4", "5", "4", "6", "8", "7", "2", "2", "2", "1", "5", "5", "2", "8", "6", "4", "6", "e", "5", "3", "6", "1", "5", "3", "4", "e", "5", "b", "e", "a", "f", "a", "d", "a", "e", "b">>) @@
    (<<"L", "O", "C", "A", "T", "I", "O", "N", ":", "b", "a", "a", "b">> :> <<"a", "2", "a", "3", "9", "0", "1", "8", "5", "1", "e", "f", "8", "8", "0", "3", "c", "c", "c", "6", "3", "3", "8", "2", "e", "b", "8", "0", "8", "5", "d", "0", "0", "2", "5", "f", "2", "2", "e", "f", "3", "4", "3", "e", "b", "4", "f", "4", "5", "0", "5", "3", "8", "2", "f", "d", "1", "e", "4", "6", "0", "5", "e", "b">>) @@
    (<<"L", "O", "C", "A", "T", "I", "O", "N", ":", "b", "a", "b", "a">> :> <<"3", "6", "0", "0", "6", "6", "1", "5", "d", "e", "7", "1", "e", "5", "7", "2", "e", "7", "b", "3", "6", "2", "0", "f", "8", "d", "a", "5", "a", "c", "f", "3", "a", "9", "6", "4", "8", "c", "d", "d", "9", "5", "8", "e", "5", "c", "2", "c", "4", "7", "8", "a", "1", "5", "6", "7", "d", "c", "2", "d", "c", "9", "a", "6">>) @@
    (<<"L", "O", "C", "A", "T", "I", "O", "N", ":", "b", "a", "b", "b">> :> <<"a", "f", "5", "5", "7", "2", "8", "2", "4", "e", "1", "2", "b", "e", "d", "d", "a", "5", "c", "b", "2", "1", "8", "6", "b", "5", "e", "9", "6", "b", "4", "e", "d", "9", "e", "0", "c", "3", "2", "e", "7", "5", "1", "1", "7", "1", "7", "4", "9", "b", "b", "a", "6", "8", "3", "9", "0", "4", "8", "d", "0", "7", "7", "2">>) @@
    (<<"L", "O", "C", "A", "T", "I", "O", "N", ":", "b", "b", "a", "a">> :> <<"5", "9", "d", "d", "8", "5", "9", "5", "3", "1", "6", "5", "2", "5", "9", "8", "d", "8", "8", "3", "6", "8", "3", "0", "5", "1", "1", "f", "f", "8", "6", "8", "5", "1", "6", "1", "a", "2", "9", "b", "8", "c", "8", "e", "f", "e", "4", "0", "b", "6", "2", "a", "7", "2", "b", "c", "8", "a", "8", "7", "9", "1", "8", "e">>) @@
    (<<"L", "O", "C", "A", "T", "I", "O", "N", ":", "b", "b", "a", "b">> :> <<"f", "f", "2", "4", "5", "5", "6", "8", "a", "7", "b", "b", "3", "1", "c", "4", "e", "6", "7", "3", "4", "e", "9", "4", "5", "2", "b", "8", "2", "0", "9", "d", "b", "9", "4", "1", "7", "b", "e", "e", "3", "7", "2", "4", "5", "2", "b", "8", "c", "e", "5", "8", "7", "4", "c", "8", "c", "a", "5", "1", "2", "a", "7", "8">>) @@
    (<<"L", "O", "C", "A", "T", "I", "O", "N", ":", "b", "b", "b", "a">> :> <<"6", "0", "e", "2", "6", "d", "f", "8", "9", "b", "f", "5", "b", "8", "d", "b", "2", "5", "e", "c", "1", "7", "8", "3", "0", "5", "a", "3", "8", "c", "3", "6", "0", "8", "c", "f", "6", "2", "4", "3", "b", "0", "3", "0", "3", "0", "5", "6", "d", "3", "b", "b", "6", "7", "a", "f", "6", "9", "a", "5", "d", "4", "0", "4">>) @@
    (<<"L", "O", "C", "A", "T", "I", "O", "N", ":", "b", "b", "b", "b">> :> <<"c", "7", "8", "d", "8", "1", "5", "4", "7", "5", "5", "9", "0", "7", "0", "a", "e", "0", "e", "1", "d", "f", "d", "e", "b", "8", "d", "d", "a", "2", "8", "d", "c", "c", "e", "4", "d", "4", "4", "5", "1", "d", "b", "f", "8", "9", "7", "3", "4", "8", "5", "d", "d", "3", "5", "0", "b", "2", "2", "a", "0", "e", "b", "7">>) @@
    (<<"U", "S", "_", "S", "S", "N", ":", "a">> :> <<"9", "5", "4", "7", "2", "6", "1", "c", "4", "b", "4", "6", "9", "7", "1", "0", "a", "5", "e", "4", "e", "d", "7", "1", "f", "7", "d", "7", "f", "4", "f", "b", "0", "b", "f", "0", "4", "3", "0", "4", "c", "8", "2", "7", "3", "8", "4", "f", "c", "5", "d", "b", "8", "9", "c", "1", "4", "8", "1", "4", "b", "0", "4", "1">>) @@
    (<<"U", "S", "_", "S", "S", "N", ":", "b">> :> <<"2", "3", "3", "b", "5", "5", "c", "1", "3", "7", "2", "2", "c", "e", "f", "9", "0", "3", "0", "5", "2", "d", "6", "b", "2", "1", "6", "4", "f", "2", "f", "e", "9", "2", "d", "e", "d", "b", "6", "2", "5", "a", "9", "f", "3", "6", "6", "6", "1", "7", "9", "7", "c", "9", "2", "c", "7", "6", "f", "b", "2", "2", "e", "4">>) @@
    (<<"U", "S", "_", "S", "S", "N", ":", "a", "b">> :> <<"c", "a", "3", "a", "4", "0", "f", "2", "3", "3", "a", "1", "0", "2", "0", "0", "e", "6", "c", "3", "8", "4", "4", "1", "8", "a", "4", "5", "9", "9", "c", "a", "0", "1", "5", "8", "b", "8", "8", "8", "0", "5", "d", "2", "1", "e", "c", "9", "6", "6", "9", "4", "9", "3", "0", "1", "2", "c", "8", "9", "4", "b", "3", "f">>) @@
    (<<"U", "S", "_", "S", "S", "N", ":", "b", "a">> :> <<"9", "8", "e", "a", "5", "1", "c", "4", "8", "e", "e", "0", "a", "9", "d", "5", "9", "b", "a", "b", "b", "1", "9", "f", "0", "c", "8", "1", "7", "6", "f", "d", "e", "2", "f", "6", "3", "2", "f", "b", "a", "9", "8", "4", "0", "d", "1", "9", "0", "8", "7", "b", "d", "c", "9", "7", "7", "2", "2", "b", "7", "7", "0", "9">>) @@
    (<<"U", "S", "_", "S", "S", "N", ":", "a", "b", "a">> :> <<"b", "5", "5", "4", "b", "b", "2", "7", "4", "1", "6", "7", "8", "d", "9", "1", "4", "f", "6", "2", "5", "c", "d", "3", "3", "e", "2", "2", "2", "8", "7", "0", "4", "6", "4", "6", "1", "b", "a", "e", "9", "1", "f", "3", "2", "1", "6", "4", "9", "6", "f", "d", "7", "a", "d", "2", "c", "e", "f", "0", "0", "e", "7", "8">>) @@
    (<<"U", "S", "_", "S", "S", "N", ":", "b", "a", "b">> :> <<"6", "b", "2", "3", "d", "c", "b", "6", "e", "b", "7", "8", "2", "c", "2", "4", "c", "f", "1", "a", "2", "a", "d", "4", "2", "d", "e", "f", "e", "0", "0", "e", "6", "d", "5", "9", "a", "d", "7", "4", "f", "0", "e", "8", "4", "a", "b", "0", "0", "3", "3", "1", "3", "a", "1", "e", "f", "e", "7", "c", "0", "c", "2", "a">>) @@
    (<<"U", "S", "_", "S", "S", "N", ":", "a", "b", "a", "b">> :> <<"d", "3", "f", "9", "9", "5", "3", "7", "5", "a", "8", "1", "f", "7", "e", "5", "4", "8", "c", "7", "4", "4", "0", "9", "8", "4", "f", "c", "d", "6", "8", "8", "c", "3", "f", "3", "f", "b", "e", "d", "d", "4", "5", "f", "2", "d", "1", "b", "c", "1", "a", "f", "3", "3", "9", "6", "2", "6", "c", "f", "6", "8", "1", "3">>) @@
    (<<"U", "N", "K", "N", "O", "W", "N", "_", "T", "Y", "P", "E", ":", "a">> :> <<"9", "d", "9", "5", "e", "5", "d", "e", "5", "9", "3", "3", "6", "f", "d", "a", "c", "d", "c", "b", "1", "a", "9", "e", "3", "9", "3", "4", "e", "1", "d", "8", "4", "1", "b", "6", "e", "6", "e", "2", "9", "9", "6", "3", "3", "9", "3", "1", "7", "d", "6", "f", "e", "e", "0", "c", "4", "f", "0", "9", "6", "7", "8", "3">>) @@
    (<<"U", "N", "K", "N", "O", "W", "N", "_", "T", "Y", "P", "E", ":", "b">> :> <<"9", "3", "3", "f", "a", "4", "7", "1", "b", "c", "6", "6", "e", "9", "5", "f", "f", "3", "9", "c", "8", "d", "0", "d", "5", "3", "1", "a", "d", "5", "1", "8", "a", "3", "9", "8", "8", "1", "b", "f", "3", "8", "c", "9", "d", "e", "3", "4", "f", "a", "0", "c", "d", "4", "a", "7", "8", "1", "5", "1", "2", "a", "4", "1">>) @@
    (<<"U", "N", "K", "N", "O", "W", "N", "_", "T", "Y", "P", "E", ":", "a", "b">> :> <<"d", "7", "c", "2", "4", "a", "0", "1", "2", "5", "8", "5", "c", "e", "4", "c", "c", "e", "0", "f", "1", "6", "8", "9", "c", "a", "6", "7", "e", "6", "9", "d", "6", "2", "1", "2", "3", "6", "1", "f", "1", "a", "b", "3", "5", "0", "2", "8", "c", "a", "6", "4", "a", "b", "b", "8", "f", "5", "f", "1", "e", "b", "b", "d">>) @@
    (<<"U", "N", "K", "N", "O", "W", "N", "_", "T", "Y", "P", "E", ":", "b", "a">> :> <<"d", "f", "1", "3", "e", "8", "2", "e", "0", "6", "1", "0", "1", "0", "2", "7", "a", "c", "f", "2", "8", "8", "b", "4", "4", "f", "2", "0", "d", "7", "0", "b", "0", "d", "e", "a", "4", "e", "8", "f", "b", "c", "3", "7", "3", "0", "8", "2", "3", "3", "0", "c", "d", "5", "8", "4", "1", "9", "3", "c", "d", "2", "5", "7">>) @@
    (<<"U", "N", "K", "N", "O", "W", "N", "_", "T", "Y", "P", "E", ":", "a", "b", "a">> :> <<"8", "a", "f", "5", "c", "b", "1", "6", "e", "4", "f", "2", "e", "8", "6", "6", "9", "6", "4", "c", "f", "d", "2", "3", "f", "5", "d", "3", "c", "d", "b", "b", "4", "0", "5", "e", "8", "c", "b", "8", "7", "9", "6", "7", "3", "d", "b", "b", "9", "8", "e", "b", "4", "a", "5", "0", "c", "3", "4", "2", "2", "a", "f", "5">>) @@
    (<<"U", "N", "K", "N", "O", "W", "N", "_", "T", "Y", "P", "E", ":", "b", "a", "b">> :> <<"4", "2", "1", "a", "c", "8", "6", "8", "e", "b", "d", "d", "2", "0", "5", "c", "6", "b", "c", "9", "a", "2", "c", "8", "0", "a", "5", "b", "b", "8", "f", "c", "0", "8", "f", "b", "6", "5", "3", "d", "5", "a", "b", "7", "1", "f", "2", "b", "e", "7", "9", "6", "2", "5", "4", "6", "3", "f", "a", "5", "e", "8", "7", "7">>) @@
    (<<"U", "N", "K", "N", "O", "W", "N", "_", "T", "Y", "P", "E", ":", "a", "b", "a", "b">> :> <<"1", "b", "a", "3", "f", "2", "6", "3", "b", "1", "8", "a", "f", "c", "3", "8", "f", "4", "4", "9", "7", "a", "4", "d", "0", "c", "4", "1", "0", "c", "7", "2", "e", "0", "f", "8", "c", "c", "8", "4", "c", "5", "e", "c", "6", "4", "5", "d", "2", "5", "6", "4", "0", "e", "e", "3", "3", "4", "b", "b", "a", "c", "f", "c">>) @@
    (<<"P", "E", "R", "S", "O", "N", ":", "A", "l", "i", "c", "e">> :> <<"9", "2", "e", "6", "7", "e", "7", "6", "c", "7", "7", "6", "d", "1", "2", "6", "0", "9", "3", "7", "4", "9", "c", "b", "5", "c", "8", "d", "0", "5", "6", "6", "f", "5", "6", "4", "f", "b", "f", "c", "9", "9", "0", "8", "b", "4", "a", "4", "a", "c", "0", "c", "e", "b", "9", "e", "5", "7", "8", "3", "4", "7", "6", "7">>) @@
    (<<"P", "E", "R", "S", "O", "N", ":", "B", "o", "b">> :> <<"e", "2", "a", "1", "c", "5", "9", "b", "d", "c", "5", "9", "9", "2", "4", "c", "f", "8", "2", "0", "e", "0", "9", "c", "c", "d", "6", "7", "4", "c", "7", "6", "9", "f", "b", "5", "4", "8", "4", "5", "8", "f", "3", "8", "0", "a", "2", "1", "a", "d", "6", "7", "b", "9", "5", "4", "f", "d", "7", "a", "d", "e", "1", "3">>) @@
    (<<"e", "n", ":", "a">> :> <<"2", "1", "1", "2", "c", "0", "0", "a", "a", "b", "b", "1", "0", "4", "2", "b", "a", "d", "b", "5", "0", "c", "b", "d", "4", "e", "4", "3", "4", "d", "2", "2", "0", "1", "f", "6", "5", "2", "9", "0", "c", "0", "8", "2", "8", "3", "4", "a", "8", "3", "1", "3", "e", "f", "7", "b", "0", "3", "e", "6", "e", "b", "3", "f">>) @@
    (<<"e", "n", ":", "b">> :> <<"9", "7", "6", "a", "0", "3", "2", "4", "0", "8", "e", "1", "a", "4", "f", "5", "d", "d", "6", "c", "8", "1", "4", "0", "4", "3", "0", "b", "9", "b", "0", "1", "d", "e", "2", "7", "0", "d", "6", "b", "c", "9", "0", "7", "9", "0", "d", "0", "b", "3", "0", "6", "3", "9", "0", "3", "c", "e", "c", "6", "8", "2", "9", "f">>) @@
    (<<"d", "e", ":", "a">> :> <<"a", "9", "6", "7", "5", "1", "1", "e", "e", "a", "7", "c", "9", "f", "2", "5", "2", "a", "6", "c", "d", "7", "e", "8", "b", "f", "2", "1", "1", "0", "d", "2", "0", "2", "0", "b", "3", "e", "2", "5", "a", "2", "a", "a", "7", "7", "7", "2", "c", "d", "7", "c", "6", "9", "c", "7", "2", "8", "2", "c", "6", "5", "a", "7">>) @@
    (<<"d", "e", ":", "b">> :> <<"d", "c", "7", "b", "c", "e", "0", "9", "1", "d", "1", "b", "e", "1", "e", "a", "7", "6", "e", "a", "0", "6", "2", "e", "b", "1", "5", "1", "b", "3", "8", "d", "e", "5", "9", "1", "9", "8", "f", "2", "d", "f", "f", "f", "0", "e", "4", "5", "c", "f", "5", "c", "c", "0", "9", "3", "4", "d", "5", "a", "c", "e", "6", "5">>)

Sha256Hex(hash_input) == Sha256Table[hash_input]

\* sha256(hash_input).hexdigest()[:8]
Sha256Hex8(hash_input) == SliceTo(Sha256Hex(hash_input), 8)

\* generate_entity_id: f"{entity_type}_{entity_hash}", entity_hash being the
\* first eight hex digits of the digest of f"{entity_type}:{original_value}"
generate_entity_id(entity_type, original_value) ==
    LET hash_input == Chars(entity_type) \o <<":">> \o original_value
        entity_hash == Sha256Hex8(hash_input)
    IN  Chars(entity_type) \o <<"_">> \o entity_hash

\* faulty variant: the hash is taken with the language of the generator
EntityIdOfLanguage(self, entity_type, original_value) ==
    Chars(entity_type) \o <<"_">>
        \o Sha256Hex8(Chars(self.language) \o <<":">> \o original_value)

\* the method generate_entity_id called on the generator self: it reads
\* neither self.language nor self.fake
GenerateEntityIdOn(self, entity_type, original_value) ==
    generate_entity_id(entity_type, original_value)

\* the entity types with a generator, of those of the model: the universal
\* ones and the ones of the language of the generator
RegisteredTypes(language) ==
    {"PERSON", "LOCATION"} \cup (IF language = "de" THEN {"DE_TAX_ID"} ELSE {"US_SSN"})

\* faulty variant: the placeholder has no brackets
DefaultValueWithoutBrackets(entity_type, original_value, token) ==
    Chars(entity_type) \o <<"_">> \o token

\* _generate_default_value: f"[{entity_type}_{secrets.token_hex(4)}]", token
\* being the eight hex digits drawn
_generate_default_value(entity_type, original_value, token) ==
    <<"[">> \o Chars(entity_type) \o <<"_">> \o token \o <<"]">>

\* a caller-supplied generator: a callable that returns a fixed value, or one
\* that puts a fixed prefix before the original value
ConstantGenerator(value) == [kind |-> "constant", value |-> value]
PrefixGenerator(prefix) == [kind |-> "prefix", value |-> prefix]

\* custom_generator(original_value)
CallGenerator(generator, original_value) ==
    IF generator.kind = "prefix" THEN generator.value \o original_value
    ELSE generator.value

\* the values generate_fake_value(entity_type, original_value, custom_generator)
\* can return; custom_generator is <<>> for None, else <<the callable>>: the
\* value of the custom generator when there is one, for any type; else a value
\* of the registered generator (any of pool); else the default value for any
\* token drawn
generate_fake_value(language, entity_type, original_value, custom_generator, pool, tokens) ==
    IF custom_generator # <<>>
    THEN {CallGenerator(custom_generator[1], original_value)}
    ELSE IF entity_type \in RegisteredTypes(language) THEN pool
         ELSE {_generate_default_value(entity_type, original_value, token) : token \in tokens}

\* custom_fake_generators=None; an empty dict is treated the same (processing.py 119)
NoCustomGenerators == [entity_type \in {} |-> ConstantGenerator(<<>>)]

\* _anonymize_entities: the custom generator of the configuration for the
\* entity type, <<>> (None) when the configuration has none for it
CustomGeneratorFor(custom_fake_generators, entity_type) ==
    IF entity_type \in DOMAIN custom_fake_generators
    THEN <<custom_fake_generators[entity_type]>>
    ELSE <<>>

----------------------------------------------------------------------------
(* core.py: AnonymizedEntity; Python dict *)

AnonymizedEntity(entity_id, original_value, entity_type, fake_value, confidence) ==
    [entity_id |-> entity_id, original_value |-> original_value,
     entity_type |-> entity_type, fake_value |-> fake_value,
     confidence |-> confidence, metadata |-> None]

DictKeys(d) == {d[i][1] : i \in DOMAIN d}

\* d[k] for a key of d
DictGet(d, k) == d[CHOOSE i \in DOMAIN d : d[i][1] = k][2]

\* d[k] = v: a new key is appended, a present key keeps its place
DictSet(d, k, v) ==
    IF k \in DictKeys(d)
    THEN [i \in DOMAIN d |-> IF d[i][1] = k THEN <<k, v>> ELSE d[i]]
    ELSE Append(d, <<k, v>>)

----------------------------------------------------------------------------
(* processing.py: the anonymization transformer *)

\* faulty variant: reverse=True is missing, the spans are processed in ascending order
SortedByStartNotReversed(entities) == SortedByStart(entities)

\* one insertion of the stable descending sort
InsertByStartReverse(s, e) ==
    LET k == Cardinality({i \in DOMAIN s : s[i].start >= e.start})
    IN  SubSeq(s, 1, k) \o <<e>> \o SubSeq(s, k + 1, Len(s))

RECURSIVE SortedByStartReverse(_)
\* sorted(entities, key=lambda x: x.start, reverse=True): stable, descending
SortedByStartReverse(entities) ==
    IF entities = <<>> THEN <<>>
    ELSE InsertByStartReverse(
             SortedByStartReverse(SubSeq(entities, 1, Len(entities) - 1)),
             entities[Len(entities)])

\* faulty variant: the tail is taken from entity.start, the original value stays in the text
SubstituteSpanKeepsOriginal(anonymized, entity, fake_value) ==
    SliceTo(anonymized, entity.start) \o fake_value \o SliceFrom(anonymized, entity.start)

\* anonymized_text[:entity.start] + fake_value + anonymized_text[entity.end:]
SubstituteSpan(anonymized, entity, fake_value) ==
    SliceTo(anonymized, entity.start) \o fake_value \o SliceFrom(anonymized, entity.end)

\* entities_map[entity_id] = AnonymizedEntity(...)
RecordEntity(map, entity, fake_value) ==
    LET entity_id == generate_entity_id(entity.entity_type, entity.text)
    IN  DictSet(map, entity_id,
                AnonymizedEntity(entity_id, entity.text, entity.entity_type,
                                 fake_value, entity.confidence))

----------------------------------------------------------------------------
(* deanonymization.py *)

\* sub in s
Contains(s, sub) ==
    \E i \in 0..(Len(s) - Len(sub)) : SubSeq(s, i + 1, i + Len(sub)) = sub

RECURSIVE ReplaceEmpty(_, _)
\* s.replace("", new): new before every character and at the end
ReplaceEmpty(s, new) ==
    IF s = <<>> THEN new
    ELSE new \o <<s[1]>> \o ReplaceEmpty(Tail(s), new)

RECURSIVE ReplaceFrom(_, _, _)
\* s.replace(old, new) for a non-empty old: leftmost non-overlapping occurrences
ReplaceFrom(s, old, new) ==
    IF Len(s) < Len(old) THEN s
    ELSE IF SubSeq(s, 1, Len(old)) = old
         THEN new \o ReplaceFrom(SubSeq(s, Len(old) + 1, Len(s)), old, new)
         ELSE <<s[1]>> \o ReplaceFrom(Tail(s), old, new)

\* s.replace(old, new)
Replace(s, old, new) ==
    IF old = <<>> THEN ReplaceEmpty(s, new) ELSE ReplaceFrom(s, old, new)

\* isinstance(entity, dict): a dict made by to_dict has no "entity_id" key,
\* an AnonymizedEntity has the field
IsDict(entity) == "entity_id" \notin DOMAIN entity

\* the {"fake_value", "original_value"} records, in the order of the map's items
ProcessedEntities(map) ==
    [i \in DOMAIN map |->
        IF IsDict(map[i][2])
        THEN [fake_value |-> map[i][2]["fake_value"],
              original_value |-> map[i][2]["original_value"]]
        ELSE [fake_value |-> map[i][2].fake_value,
              original_value |-> map[i][2].original_value]]

\* faulty variant: a sort that is not stable: once a call has returned, pairs of
\* equal length come out in the reverse of the order of the map
InsertByFakeLenUnstable(s, e) ==
    LET k == IF runs = <<>>
             THEN Cardinality({i \in DOMAIN s : Len(s[i].fake_value) >= Len(e.fake_value)})
             ELSE Cardinality({i \in DOMAIN s : Len(s[i].fake_value) > Len(e.fake_value)})
    IN  SubSeq(s, 1, k) \o <<e>> \o SubSeq(s, k + 1, Len(s))

\* one insertion of the stable sort by descending length of fake_value (len of
\* the str: every element of the sequence is one character)
InsertByFakeLen(s, e) ==
    LET k == Cardinality({i \in DOMAIN s : Len(s[i].fake_value) >= Len(e.fake_value)})
    IN  SubSeq(s, 1, k) \o <<e>> \o SubSeq(s, k + 1, Len(s))

RECURSIVE SortedByFakeLen(_)
\* processed_entities.sort(key=lambda x: len(x["fake_value"]), reverse=True)
SortedByFakeLen(entities) ==
    IF entities = <<>> THEN <<>>
    ELSE InsertByFakeLen(SortedByFakeLen(SubSeq(entities, 1, Len(entities) - 1)),
                         entities[Len(entities)])

\* the body of the replacement loop
RestoreStep(original_text, entity) ==
    IF Contains(original_text, entity.fake_value)
    THEN Replace(original_text, entity.fake_value, entity.original_value)
    ELSE original_text

RECURSIVE RestoreLoop(_, _, _)
\* original_text after the loop has consumed processed_entities[1..k]
RestoreLoop(original_text, processed_entities, k) ==
    IF k = 0 THEN original_text
    ELSE RestoreStep(RestoreLoop(original_text, processed_entities, k - 1),
                     processed_entities[k])

\* deanonymize_text(...).anonymized_data
deanonymize_text(anonymized, map) ==
    LET processed_entities == SortedByFakeLen(ProcessedEntities(map))
    IN  RestoreLoop(anonymized, processed_entities, Len(processed_entities))

\* deanonymize_text(...).entities_map
ResultMap(map) == <<>>

\* the ProcessingResult of deanonymize_text
DeanonymizationResult(original_text, map) ==
    [anonymized_data |-> original_text, entities_map |-> ResultMap(map),
     entities_processed |-> Len(map)]

RECURSIVE MatchesFrom(_, _, _)
\* the 1-based starts of the occurrences s.replace(old, ...) replaces, where s
\* is the part of the string that begins at index at
MatchesFrom(s, old, at) ==
    IF Len(s) < Len(old) THEN <<>>
    ELSE IF SubSeq(s, 1, Len(old)) = old
         THEN <<at>> \o MatchesFrom(SubSeq(s, Len(old) + 1, Len(s)), old,
                                    at + Len(old))
         ELSE MatchesFrom(Tail(s), old, at + 1)

\* the starts of the occurrences s.replace(old, ...) replaces (an empty old
\* replaces no character)
Matches(s, old) == IF old = <<>> THEN <<>> ELSE MatchesFrom(s, old, 1)

\* the origin of the characters of a replacement: none comes from the input
Written(new) == [i \in DOMAIN new |-> 0]

RECURSIVE OriginFrom(_, _, _, _)
\* the origins of the characters of s.replace(old, new) for a non-empty old,
\* given the origins at of the characters of s
OriginFrom(at, s, old, new) ==
    IF Len(s) < Len(old) THEN at
    ELSE IF SubSeq(s, 1, Len(old)) = old
         THEN Written(new) \o OriginFrom(SubSeq(at, Len(old) + 1, Len(at)),
                                         SubSeq(s, Len(old) + 1, Len(s)), old, new)
         ELSE <<at[1]>> \o OriginFrom(Tail(at), Tail(s), old, new)

\* the origins of the characters of RestoreStep(original_text, entity), given
\* the origins at of the characters of original_text
OriginAfter(at, original_text, entity) ==
    IF ~Contains(original_text, entity.fake_value) THEN at
    ELSE IF entity.fake_value = <<>>
         THEN ReplaceEmpty(at, Written(entity.original_value))
         ELSE OriginFrom(at, original_text, entity.fake_value, entity.original_value)

----------------------------------------------------------------------------
(* cache.py: ThreadSafeLRUCache *)

\* list.remove(x): the first occurrence of x is removed
ListRemove(s, x) ==
    LET i == CHOOSE j \in DOMAIN s : s[j] = x /\ \A h \in 1..(j - 1) : s[h] # x
    IN  SubSeq(s, 1, i - 1) \o SubSeq(s, i + 1, Len(s))

\* the dict with key k deleted
DictDel(c, k) == [x \in (DOMAIN c) \ {k} |-> c[x]]

\* the dict with c[k] = v
DictPut(c, k, v) == [x \in (DOMAIN c) \cup {k} |-> IF x = k THEN v ELSE c[x]]

\* faulty variant: a set of a stored key keeps the value stored first
LruSetKeepsFirst(c, order, size, key, value) ==
    IF key \in DOMAIN c
    THEN [raised |-> "", cache |-> c, order |-> Append(ListRemove(order, key), key)]
    ELSE IF Cardinality(DOMAIN c) >= size
         THEN [raised |-> "",
               cache |-> DictPut(DictDel(c, Head(order)), key, value),
               order |-> Append(Tail(order), key)]
         ELSE [raised |-> "", cache |-> DictPut(c, key, value),
               order |-> Append(order, key)]

\* faulty variant: a new key is stored at capacity without evicting the oldest
LruSetWithoutEviction(c, order, size, key, value) ==
    IF key \in DOMAIN c
    THEN [raised |-> "", cache |-> DictPut(c, key, value),
          order |-> Append(ListRemove(order, key), key)]
    ELSE [raised |-> "", cache |-> DictPut(c, key, value),
          order |-> Append(order, key)]

\* faulty variant: a hit does not move the key to the end of _access_order
LruGetNoPromotion(c, order, key) ==
    IF key \in DOMAIN c
    THEN [ret |-> c[key], order |-> order]
    ELSE [ret |-> None, order |-> order]

\* get, under the lock: the returned value and the new _access_order
LruGet(c, order, key) ==
    IF key \in DOMAIN c
    THEN [ret |-> c[key], order |-> Append(ListRemove(order, key), key)]
    ELSE [ret |-> None, order |-> order]

\* set, under the lock: the new _cache and _access_order, or the exception
LruSet(c, order, size, key, value) ==
    IF key \in DOMAIN c
    THEN [raised |-> "", cache |-> DictPut(c, key, value),
          order |-> Append(ListRemove(order, key), key)]
    ELSE IF Cardinality(DOMAIN c) >= size
         THEN IF order = <<>>
              THEN [raised |-> "IndexError", cache |-> c, order |-> order]
              ELSE IF Head(order) \notin DOMAIN c
                   THEN [raised |-> "KeyError", cache |-> c, order |-> Tail(order)]
                   ELSE [raised |-> "",
                         cache |-> DictPut(DictDel(c, Head(order)), key, value),
                         order |-> Append(Tail(order), key)]
         ELSE [raised |-> "", cache |-> DictPut(c, key, value),
               order |-> Append(order, key)]

\* faulty variant: get returns the value last passed to set for the key
NoCacheGetRemembers(sets, key) == IF key \in DOMAIN sets THEN sets[key] ELSE None

\* NoCacheStrategy.get(key), whatever was passed to set before
NoCacheGet(sets, key) == None

----------------------------------------------------------------------------
(* analyzer.py: AsyncPIIAnalyzerEngine *)

\* hashlib.md5(text.encode()).hexdigest(): the digest is represented by its input
Md5Hex(txt) == txt

\* the entity type names of the model in the order of str comparison
TypeOrder == <<"LOCATION", "PERSON">>

Rank(entity_type) == CHOOSE i \in DOMAIN TypeOrder : TypeOrder[i] = entity_type

\* one insertion of the stable ascending sort of names
InsertByName(s, e) ==
    LET k == Cardinality({i \in DOMAIN s : Rank(s[i]) <= Rank(e)})
    IN  SubSeq(s, 1, k) \o <<e>> \o SubSeq(s, k + 1, Len(s))

\* faulty variant: the names are joined in the order of the request
NamesAsRequested(entities) == entities

RECURSIVE SortedNames(_)
\* sorted(entities)
SortedNames(entities) ==
    IF entities = <<>> THEN <<>>
    ELSE InsertByName(SortedNames(SubSeq(entities, 1, Len(entities) - 1)),
                      entities[Len(entities)])

\* _get_cache_key: f"{text_hash}_{language.value}_{entities_str}"; the list of
\* sorted names stands for its join with ","
_get_cache_key(txt, language, entities) ==
    <<Md5Hex(txt), "_", language, "_", SortedNames(entities)>>

\* self._cache.get(cache_key) of the analyzer's strategy (NoCacheStrategy.get
\* returns None)
CacheGet(strat, c, order, key) ==
    IF strat = "lru" THEN LruGet(c, order, key) ELSE [ret |-> None, order |-> order]

\* self._cache.set(cache_key, result) of the analyzer's strategy
\* (NoCacheStrategy.set does nothing)
CacheSet(strat, c, order, size, key, value) ==
    IF strat = "lru" THEN LruSet(c, order, size, key, value)
    ELSE [raised |-> "", cache |-> c, order |-> order]

\* faulty variant: the test is "if cached_result:", an empty list counts as a miss
IsTruthy(strat, c, key) == strat = "lru" /\ key \in DOMAIN c /\ c[key] # <<>>

\* cached_result is not None: get returns None exactly for a key that is not
\* stored, every stored value being a list
IsNotNone(strat, c, key) == strat = "lru" /\ key \in DOMAIN c

\* faulty variant: an empty result is stored under the key before detection returns
StoredBeforeDetection(strat, c, order, size, key) ==
    LET st == CacheSet(strat, c, order, size, key, <<>>)
    IN  [cache |-> st.cache, order |-> st.order]

\* the cache when the awaited detection raises: line 116 is not reached
AfterFailedDetection(strat, c, order, size, key) == [cache |-> c, order |-> order]

\* faulty variant: process_text_async lets the exception through as it is
PropagatedUnwrapped(exception, caller) == exception

\* the exception the caller of analyze_async lets through: process_text_async
\* wraps every Exception in ProcessingError, a CancelledError is no Exception
Propagated(exception, caller) ==
    IF caller = "engine" /\ exception # "CancelledError" THEN "ProcessingError"
    ELSE exception

\* where the caller of analyze_async continues after it returned or raised
Awaiting(caller) == IF caller = "engine" THEN "detecting" ELSE "analyzer"
Returned(caller) == IF caller = "engine" THEN "detected" ELSE "analyzer"
Failed(caller) == IF caller = "engine" THEN "facade" ELSE "analyzer"

\* the entries of the trace
Event(event, key) == [event |-> event, key |-> key, exception |-> ""]
RaiseEvent(key, exception) == [event |-> "raise", key |-> key, exception |-> exception]

\* the number of calls made so far
NumCalls(tr) == Cardinality({i \in DOMAIN tr : tr[i].event = "call"})

----------------------------------------------------------------------------
(* redis_cache.py: RedisCache *)

\* Python values handed to the cache: a record of the type and the content
PyNone == [type |-> "NoneType", val |-> <<>>]
PyInt(n) == [type |-> "int", val |-> n]
PyList(items) == [type |-> "list", val |-> items]
PyFunction == [type |-> "function", val |-> <<>>]
PyEntityMatch(entity) == [type |-> "EntityMatch", val |-> entity]

\* the list of EntityMatch objects _analyze_sync_internal returns
DetectionResult(detection) ==
    PyList([i \in DOMAIN detection |-> PyEntityMatch(detection[i])])

\* the decimal text of the integers of the model
Digits == <<"1", "2">>

\* an optional argument: <<>> is None, <<x>> is the value x
IsNone(arg) == arg = <<>>

\* int(s) for the decimal strings of the environment of the model
IntOf(s) == IF s = "0" THEN 0 ELSE IF s = "60" THEN 60 ELSE 3600

\* json.dumps(value) as a sequence of tokens, or the exception: an int and a
\* list of ints are written out, a function and an EntityMatch are not JSON
\* serializable
JsonDumps(value) ==
    IF value.type = "int" THEN [raised |-> "", text |-> <<Digits[value.val]>>]
    ELSE IF value.type = "list" /\ \A i \in DOMAIN value.val : value.val[i].type = "int"
         THEN [raised |-> "",
               text |-> <<"[">> \o [i \in 1..(2 * Len(value.val) - 1) |->
                                      IF i % 2 = 0 THEN ", "
                                      ELSE Digits[value.val[(i + 1) \div 2].val]]
                              \o <<"]">>]
         ELSE [raised |-> "TypeError", text |-> <<>>]

\* the integer a token spells
IntOfToken(token) == CHOOSE n \in DOMAIN Digits : Digits[n] = token

\* the tokens spell a list of integers: "[", items separated by ", ", "]"
IsJsonList(b) ==
    /\ Len(b) >= 2 /\ b[1] = "[" /\ b[Len(b)] = "]"
    /\ (Len(b) = 2 \/ Len(b) % 2 = 1)
    /\ \A i \in 2..(Len(b) - 1) :
           IF i % 2 = 0 THEN b[i] \in Range(Digits) ELSE b[i] \in {", ", ","}

\* json.loads(value) of the bytes read from the store: bytes that are not
\* UTF-8 fail in the decoding (UnicodeDecodeError), text that is not JSON
\* fails in the parser (JSONDecodeError)
JsonLoads(b) ==
    IF \E i \in DOMAIN b : b[i] = "\\xff"
    THEN [raised |-> "UnicodeDecodeError", value |-> PyNone]
    ELSE IF Len(b) = 1 /\ b[1] \in Range(Digits)
         THEN [raised |-> "", value |-> PyInt(IntOfToken(b[1]))]
         ELSE IF IsJsonList(b)
              THEN [raised |-> "",
                    value |-> PyList([i \in 1..((Len(b) - 1) \div 2) |->
                                         PyInt(IntOfToken(b[2 * i]))])]
              ELSE [raised |-> "JSONDecodeError", value |-> PyNone]

\* int(expiration_time or os.environ.get('REDIS_EXPIRATION_TIME', 3600)):
\* None and 0 are both falsy
ExpirationTime(expiration_time, env) ==
    IF ~IsNone(expiration_time) /\ expiration_time[1] # 0 THEN expiration_time[1]
    ELSE IF ~IsNone(env) THEN IntOf(env[1]) ELSE 3600

\* key_prefix or os.environ.get('REDIS_KEY_PREFIX', 'pii_anonymizer:'), the
\* variable being unset
KeyPrefix(key_prefix) ==
    IF ~IsNone(key_prefix) /\ key_prefix[1] # "" THEN key_prefix[1] ELSE "pii_anonymizer:"

\* _format_key: f"{self._key_prefix}{key}"
_format_key(prefix, key) == <<prefix>> \o key

\* a command sent to the Redis client
Command(name, key, ttl, value) == [name |-> name, key |-> key, ttl |-> ttl, value |-> value]

\* the time to live of a key stored without expiration (the answer of TTL)
NoExpiry == 0 - 1

\* RedisCache.get(key): the returned value, or the exception that leaves get
RedisGet(store, prefix, key) ==
    LET formatted_key == _format_key(prefix, key)
    IN  IF formatted_key \notin DOMAIN store
        THEN [ret |-> PyNone, raised |-> ""]
        ELSE LET loaded == JsonLoads(store[formatted_key].value)
             IN  IF loaded.raised \in {"JSONDecodeError", "TypeError"}
                 THEN [ret |-> PyNone, raised |-> ""]
                 ELSE [ret |-> loaded.value, raised |-> loaded.raised]

\* RedisCache.set(key, value): the commands sent (none when json.dumps raises
\* TypeError or ValueError) and the store after them
RedisSet(store, prefix, expiration, key, value) ==
    LET formatted_key == _format_key(prefix, key)
        serialized_value == JsonDumps(value)
    IN  IF serialized_value.raised \in {"TypeError", "ValueError"}
        THEN [commands |-> <<>>, store |-> store, raised |-> ""]
        ELSE IF expiration > 0
             THEN [commands |-> <<Command("setex", formatted_key, expiration,
                                          serialized_value.text)>>,
                   store |-> DictPut(store, formatted_key,
                                     [value |-> serialized_value.text, ttl |-> expiration]),
                   raised |-> ""]
             ELSE [commands |-> <<Command("set", formatted_key, NoExpiry,
                                          serialized_value.text)>>,
                   store |-> DictPut(store, formatted_key,
                                     [value |-> serialized_value.text, ttl |-> NoExpiry]),
                   raised |-> ""]

\* the keys of the store that match the pattern f"{self._key_prefix}*"
ScanKeys(store, prefix) == {k \in DOMAIN store : k[1] = prefix}

\* the cursor argument of a scan command
CursorText(cursor) == IF cursor = 0 THEN "0" ELSE "1"

----------------------------------------------------------------------------
(* The inputs of the model *)

Alphabet == {"a", "b"}

\* the source texts of the anonymization runs
Texts == [1..MaxPos -> Alphabet]

\* the source text of the resolver runs
ResolverText == [i \in 1..MaxPos |-> IF i % 2 = 1 THEN "a" ELSE "b"]

\* confidences (in tenths) a recognizer reports, and the configured thresholds
ConfidenceLevels == {5, 9}
Thresholds == {5, 9}

\* constructor arguments for a confidence, valid or not
RawConfidences == {0 - 1, 0, 5, ConfidenceOne, ConfidenceOne + 1}

\* the half-open spans [start, end) inside a text of length n
Spans(n) == {sp \in (0..n) \X (0..n) : sp[1] < sp[2]}

\* analyzer.py, _analyze_sync_internal: the matches a detection can hold for txt;
\* each has text = txt[start:end]
Detections(txt, types, confidences) ==
    {EntityMatch(t, sp[1], sp[2], Slice(txt, sp[1], sp[2]), c) :
        t \in types, sp \in Spans(Len(txt)), c \in confidences}

\* ascending by start and no two matches overlapping
IsResolved(s) == \A i \in 1..(Len(s) - 1) : s[i].end <= s[i + 1].start

\* the merge results over txt: what process_text_async hands to _anonymize_entities
ResolvedDetections(txt, types, confidences) ==
    {s \in SeqsUpTo(Detections(txt, types, confidences), MaxEntities) : IsResolved(s)}

\* secrets.token_hex(4): eight hex digits
HexDigits == {"0", "1", "2", "3", "4", "5", "6", "7", "8", "9", "a", "b", "c", "d", "e", "f"}
TokenHex4 == {<<"0", "0", "0", "0", "0", "0", "0", "0">>,
              <<"9", "f", "3", "c", "2", "a", "1", "b">>}

\* the entity types of the runs with types that have no generator
UnknownRunTypes == {"PERSON", "US_SSN", "UNKNOWN_TYPE"}
UnknownRunFakes == {<<"x">>, <<"x", "y">>}
\* the custom_fake_generators of these runs: none, one for a type without
\* generator, one for a type with a generator in English only
UnknownRunGenerators ==
    {NoCustomGenerators,
     [entity_type \in {"UNKNOWN_TYPE"} |-> ConstantGenerator(<<"x">>)],
     [entity_type \in {"US_SSN"} |-> PrefixGenerator(<<"C">>)]}

\* the values the fake generator of the anonymization runs can return
AnonFakes == {<<"x">>, <<"y">>, <<"x", "y">>, <<"a">>}

\* "Alice emailed Bob"
AliceEmailedBob ==
    <<"A", "l", "i", "c", "e", " ", "e", "m", "a", "i", "l", "e", "d", " ", "B", "o", "b">>

Person_1 == <<"P", "e", "r", "s", "o", "n", "_", "1">>
Person_2 == <<"P", "e", "r", "s", "o", "n", "_", "2">>

\* the values the fake generator of the scenario run can return
ScenarioFakes ==
    AnonFakes \cup {Person_1, Person_2, <<"B", "o", "b">>, <<"A", "l", "i", "c", "e">>,
                    <<"P">>, <<"[", "]">>}

\* cache keys (identified by number) and cached values
Keys == 1..MaxKeys
Values == {"v1", "v2"}

EmptyDict == [k \in {} |-> None]

\* faulty variant: the two values are stored under each other's key
ToDictSwapsValues(entity) ==
    [original_value |-> entity.fake_value, entity_type |-> entity.entity_type,
     fake_value |-> entity.original_value, confidence |-> entity.confidence,
     metadata |-> IF entity.metadata = None THEN EmptyDict ELSE entity.metadata]

\* AnonymizedEntity.to_dict(): no entity_id; metadata or {}
to_dict(entity) ==
    [original_value |-> entity.original_value, entity_type |-> entity.entity_type,
     fake_value |-> entity.fake_value, confidence |-> entity.confidence,
     metadata |-> IF entity.metadata = None THEN EmptyDict ELSE entity.metadata]

\* {entity_id: entity.to_dict()}: the map in its serialised form
DictMap(map) == [i \in DOMAIN map |-> <<map[i][1], to_dict(map[i][2])>>]

\* the map deanonymize_text is called with
MapOfForm(map, form) == IF form = "dict" THEN DictMap(map) ELSE map

\* ProcessingConfig(): the defaults of the dataclass (confidence in tenths)
DefaultConfig ==
    [language |-> "en", entities_to_process |-> <<>>, confidence_threshold |-> 5,
     max_workers |-> 4, chunk_size |-> 2000, cache_enabled |-> TRUE,
     custom_fake_generators |-> NoCustomGenerators]

\* the requests made to an analyzer
AnalyzerTexts == {<<"a">>}
Languages == {"en", "de"}
EntityLists == {<<"PERSON">>, <<"PERSON", "LOCATION">>, <<"LOCATION", "PERSON">>}
AnalyzerEntityLists == {<<"PERSON">>}

\* the generators generate_entity_id is called on: two English ones and a
\* German one; the types and values the ids are asked for
GeneratorInstances == {[instance |-> 1, language |-> "en"],
                       [instance |-> 2, language |-> "de"],
                       [instance |-> 3, language |-> "en"]}
IdTypes == {"PERSON", "UNKNOWN_TYPE"}
IdValues == {<<"a">>, <<"b">>}
\* the custom_generator argument of the generate_fake_value calls in between
IdCustomGenerators == {<<>>, <<ConstantGenerator(<<"x">>)>>}

\* the requests whose cache keys are compared
KeyTexts == {<<"a">>, <<"b">>}
KeyEntityLists == EntityLists \cup {<<>>, <<"LOCATION">>}

\* the lists a detection can return for txt
DetectionResults(txt) == SeqsUpTo(Detections(txt, {"PERSON"}, {9}), 1)

\* the arguments of the calls of anonymize_text_async
FacadeTexts == {<<"a">>}
FacadeEntityLists == {<<"PERSON">>}
RawThresholds == {0 - 1, 5, ConfidenceOne + 1}
RawMaxWorkers == {0, 4}
RawChunkSizes == {99, 2000}
FacadeFakes == {<<"x">>}
\* the custom_fake_generators argument: None, or a generator for the
\* requested type
FacadeCustomGenerators ==
    {NoCustomGenerators,
     [entity_type \in {"PERSON"} |-> PrefixGenerator(<<"C">>)]}

\* the arguments and the environment of RedisCache(...)
KeyPrefixes == {<<>>, <<"custom:">>}
ExpirationTimes == {<<>>, <<0>>, <<7200>>}
EnvExpirationTimes == {<<>>, <<"0">>, <<"60">>}

\* the keys and values analyze_async hands to the cache, and the values of
\* the tests of the cache
RedisKeys == {_get_cache_key(<<"a">>, language, <<"PERSON">>) : language \in Languages}
RedisValues ==
    {DetectionResult(detection) : detection \in DetectionResults(<<"a">>)}
    \cup {PyList(<<PyInt(1), PyInt(2)>>), PyFunction}

\* the bytes another writer leaves under a key of the cache
ForeignBytes == {<<"invalid json">>, <<"[", "1", ",">>, <<"\\xff">>}

\* the inputs of the deanonymization runs: texts of fake values and other
\* characters, maps of one PERSON entity per original value
DeanonAlphabet == {"x", "a"}
DeanonTexts == SeqsUpTo(DeanonAlphabet, MaxPos)
DeanonOriginals == <<<<"a">>, <<"b">>>>
DeanonFakes == {<<"x">>, <<"x", "x">>, <<"x", "a">>}
MapForms == {"object", "dict"}

\* the entry anonymization stores for a PERSON original_value
MapEntry(original_value, fake_value) ==
    <<generate_entity_id("PERSON", original_value),
      AnonymizedEntity(generate_entity_id("PERSON", original_value),
                       original_value, "PERSON", fake_value, 9)>>

\* the maps of the deanonymization runs, in both insertion orders
DeanonMaps ==
    LET orders == {<<>>, <<1>>, <<2>>, <<1, 2>>, <<2, 1>>}
    IN  UNION {{[i \in DOMAIN o |-> MapEntry(DeanonOriginals[o[i]], f[i])] :
                   f \in [DOMAIN o -> DeanonFakes]} : o \in orders}

\* RecognizerFactory.get_all_supported_entities, reduced to the types of the model
SupportedEntities == <<"LOCATION", "PERSON">>

\* the threads that share one cache, and the keys they use
Threads == {"t1", "t2"}
ThreadKeys == {1, 2}

----------------------------------------------------------------------------
(* Initial states *)

IdleResolver == threshold = 5 /\ detected = <<>> /\ filtered = <<>> /\ merged = <<>>

IdleAnon ==
    /\ todo = <<>> /\ anonymized_text = <<>> /\ entities_map = <<>>
    /\ calls = <<>> /\ restored = <<>>

IdleEntity == args = <<>> /\ made = {}

IdleCache ==
    /\ maxsize = 1 /\ _cache = EmptyDict /\ _access_order = <<>>
    /\ op = [name |-> "none", key |-> 0, value |-> None]
    /\ ret = None /\ history = <<>> /\ lastSet = EmptyDict

\* clear() is not running
NoClear == [cursor |-> 0, keys |-> {}, unvisited |-> {}, empty |-> 0]

\* no RedisCache has been constructed
IdleRedis ==
    /\ _redis = EmptyDict /\ _key_prefix = "" /\ _expiration_time = 0
    /\ r_args = [key_prefix |-> <<>>, expiration_time |-> <<>>, env |-> <<>>]
    /\ commands = <<>>
    /\ r_clear = NoClear

\* deanonymize_text has not been called
IdleDeanon ==
    /\ d_args = [text |-> <<>>, form |-> "object"]
    /\ d_entities = <<>> /\ d_text = <<>> /\ d_origin = <<>>
    /\ runs = <<>>

\* no analyzer and no engine has been constructed
IdleEngine ==
    /\ _executor = FALSE /\ strategy = "lru"
    /\ config = DefaultConfig
    /\ request = [language |-> "en", entities |-> <<>>, caller |-> "none"]
    /\ suspended = EmptyDict
    /\ trace = <<>> /\ result = <<>>

\* a thread that has not called the cache
IdleThread ==
    [pc |-> "idle", name |-> "none", key |-> 0, value |-> None, oldest |-> 0,
     ret |-> None, expect |-> None, raised |-> ""]

IdleThreads ==
    /\ lock = None
    /\ thr = [t \in Threads |-> IdleThread]
    /\ lin = [cache |-> EmptyDict, order |-> <<>>]

\* a detection result has arrived for a request
Init ==
    /\ pc = "detected"
    /\ text = ResolverText
    /\ threshold \in Thresholds
    /\ detected \in SeqsUpTo(Detections(text, {"PERSON"}, ConfidenceLevels), MaxEntities)
    /\ filtered = <<>> /\ merged = <<>>
    /\ IdleAnon /\ fakePool = {} /\ IdleEntity /\ raised = "" /\ IdleCache
    /\ IdleThreads /\ IdleEngine /\ IdleDeanon /\ IdleRedis

\* the resolver has returned merged_entities for a request
InitAnon ==
    /\ pc = "merged"
    /\ text \in Texts
    /\ threshold = 5
    /\ merged \in ResolvedDetections(text, {"PERSON", "LOCATION"}, {9})
    /\ detected = merged /\ filtered = merged
    /\ IdleAnon /\ fakePool = AnonFakes /\ IdleEntity /\ raised = "" /\ IdleCache
    /\ IdleThreads /\ IdleEngine /\ IdleDeanon /\ IdleRedis

\* the request of the concrete scenario
InitScenario ==
    /\ pc = "detected"
    /\ text = AliceEmailedBob
    /\ threshold = 5
    /\ detected = <<EntityMatch("PERSON", 0, 5, Slice(text, 0, 5), 9),
                    EntityMatch("PERSON", 14, 17, Slice(text, 14, 17), 8)>>
    /\ filtered = <<>> /\ merged = <<>>
    /\ IdleAnon /\ fakePool = ScenarioFakes /\ IdleEntity /\ raised = "" /\ IdleCache
    /\ IdleThreads /\ IdleEngine /\ IdleDeanon /\ IdleRedis

\* a caller is about to construct an EntityMatch
InitEntity ==
    /\ pc = "construct"
    /\ text = <<>>
    /\ args \in [entity_type : {"PERSON"}, start : (0 - 1)..MaxPos, end : (0 - 1)..MaxPos,
                 text : {<<"a">>}, confidence : RawConfidences]
    /\ made = {} /\ raised = ""
    /\ IdleResolver /\ IdleAnon /\ fakePool = {} /\ IdleCache
    /\ IdleThreads /\ IdleEngine /\ IdleDeanon /\ IdleRedis

\* a cache has been constructed
InitCache ==
    /\ pc = "cache"
    /\ text = <<>>
    /\ maxsize \in 1..MaxSize
    /\ _cache = EmptyDict /\ _access_order = <<>>
    /\ op = [name |-> "none", key |-> 0, value |-> None]
    /\ ret = None /\ history = <<>> /\ lastSet = EmptyDict
    /\ raised = ""
    /\ IdleResolver /\ IdleAnon /\ fakePool = {} /\ IdleEntity
    /\ IdleThreads /\ IdleEngine /\ IdleDeanon /\ IdleRedis

\* several threads are about to use one new cache
InitThreads ==
    /\ pc = "threads"
    /\ text = <<>>
    /\ maxsize \in 1..MaxSize
    /\ _cache = EmptyDict /\ _access_order = <<>>
    /\ op = [name |-> "none", key |-> 0, value |-> None]
    /\ ret = None /\ history = <<>> /\ lastSet = EmptyDict
    /\ raised = ""
    /\ IdleResolver /\ IdleAnon /\ fakePool = {} /\ IdleEntity
    /\ IdleThreads /\ IdleEngine /\ IdleDeanon /\ IdleRedis

\* an analyzer has been constructed on a new cache and entered (async with)
InitAnalyzer ==
    /\ pc = "analyzer"
    /\ text = <<>>
    /\ maxsize \in 1..MaxSize
    /\ _cache = EmptyDict /\ _access_order = <<>>
    /\ op = [name |-> "none", key |-> 0, value |-> None]
    /\ ret = None /\ history = <<>> /\ lastSet = EmptyDict
    /\ raised = ""
    /\ IdleResolver /\ IdleAnon /\ fakePool = {} /\ IdleEntity
    /\ IdleThreads /\ IdleDeanon /\ IdleRedis
    /\ _executor = TRUE /\ strategy = "lru"
    /\ config = DefaultConfig
    /\ request = [language |-> "en", entities |-> <<>>, caller |-> "none"]
    /\ suspended = EmptyDict
    /\ trace = <<>> /\ result = <<>>

\* a facade has been constructed
InitFacade ==
    /\ pc = "facade"
    /\ text = <<>>
    /\ IdleResolver /\ IdleAnon /\ fakePool = FacadeFakes /\ IdleEntity /\ raised = ""
    /\ IdleCache /\ IdleThreads /\ IdleEngine /\ IdleDeanon /\ IdleRedis

\* a caller holds an anonymized text and its map
InitDeanon ==
    /\ pc = "deanon"
    /\ text = <<>>
    /\ IdleResolver /\ fakePool = {} /\ IdleEntity /\ raised = ""
    /\ todo = <<>> /\ calls = <<>> /\ restored = <<>>
    /\ anonymized_text \in DeanonTexts
    /\ entities_map \in DeanonMaps
    /\ IdleCache /\ IdleThreads /\ IdleEngine /\ IdleDeanon /\ IdleRedis

\* the resolver has returned merged_entities, some of a type without generator
InitUnknown ==
    /\ pc = "merged"
    /\ text = ResolverText
    /\ threshold = 5
    /\ merged \in ResolvedDetections(text, UnknownRunTypes, {9})
    /\ detected = merged /\ filtered = merged
    /\ IdleAnon /\ fakePool = UnknownRunFakes /\ IdleEntity /\ raised = "" /\ IdleCache
    /\ IdleThreads /\ IdleDeanon /\ IdleRedis
    /\ _executor = FALSE /\ strategy = "lru"
    /\ config \in {[DefaultConfig EXCEPT !.language = language,
                                          !.custom_fake_generators = generators] :
                        language \in Languages, generators \in UnknownRunGenerators}
    /\ request = [language |-> "en", entities |-> <<>>, caller |-> "none"]
    /\ suspended = EmptyDict
    /\ trace = <<>> /\ result = <<>>

\* NoCacheStrategy()
InitNoCache ==
    /\ pc = "nocache"
    /\ text = <<>>
    /\ IdleResolver /\ IdleAnon /\ fakePool = {} /\ IdleEntity /\ raised = ""
    /\ IdleCache /\ IdleThreads /\ IdleDeanon /\ IdleRedis
    /\ _executor = FALSE /\ strategy = "none"
    /\ config = DefaultConfig
    /\ request = [language |-> "en", entities |-> <<>>, caller |-> "none"]
    /\ suspended = EmptyDict
    /\ trace = <<>> /\ result = <<>>

\* an analyzer whose _get_cache_key is about to be called
InitKey ==
    /\ pc = "key"
    /\ text = <<>>
    /\ IdleResolver /\ IdleAnon /\ fakePool = {} /\ IdleEntity /\ raised = ""
    /\ IdleCache /\ IdleThreads /\ IdleEngine /\ IdleDeanon /\ IdleRedis

\* generators on which no method was called yet
InitId ==
    /\ pc = "id"
    /\ text = <<>>
    /\ IdleResolver /\ IdleAnon /\ fakePool = {<<"x">>} /\ IdleEntity /\ raised = ""
    /\ IdleCache /\ IdleThreads /\ IdleEngine /\ IdleDeanon /\ IdleRedis

\* RedisCache(key_prefix=..., expiration_time=...) on an empty store
InitRedis ==
    /\ pc = "redis"
    /\ text = <<>>
    /\ IdleResolver /\ IdleAnon /\ fakePool = {} /\ IdleEntity /\ raised = ""
    /\ maxsize = 1 /\ _cache = EmptyDict /\ _access_order = <<>>
    /\ op = [name |-> "none", key |-> <<>>, value |-> PyNone]
    /\ ret = PyNone /\ history = <<>> /\ lastSet = EmptyDict
    /\ IdleThreads /\ IdleEngine /\ IdleDeanon
    /\ r_args \in [key_prefix : KeyPrefixes, expiration_time : ExpirationTimes,
                    env : EnvExpirationTimes]
    /\ _redis = EmptyDict
    /\ _key_prefix = KeyPrefix(r_args.key_prefix)
    /\ _expiration_time = ExpirationTime(r_args.expiration_time, r_args.env)
    /\ commands = <<>>
    /\ r_clear = NoClear

----------------------------------------------------------------------------
(* Actions *)

\* process_text_async: filtered_entities = self._filter_entities(detected_entities)
Filter ==
    /\ pc = "detected"
    /\ filtered' = _filter_entities(detected, threshold)
    /\ pc' = "filtered"
    /\ UNCHANGED <<text, threshold, detected, merged, anonVars, fakePool,
                   entityVars, cacheVars, threadVars, engineVars, deanonVars, redisVars>>

\* process_text_async: merged_entities = self._merge_overlapping_entities(filtered_entities)
Merge ==
    /\ pc = "filtered"
    /\ merged' = _merge_overlapping_entities(filtered)
    /\ pc' = "merged"
    /\ UNCHANGED <<text, threshold, detected, filtered, anonVars, fakePool,
                   entityVars, cacheVars, threadVars, engineVars, deanonVars, redisVars>>

\* _anonymize_entities up to the loop
AnonStart ==
    /\ pc = "merged"
    /\ todo' = SortedByStartReverse(merged)
    /\ anonymized_text' = text
    /\ entities_map' = <<>>
    /\ calls' = <<>>
    /\ pc' = IF merged = <<>> THEN "anonymized" ELSE "anonymizing"
    /\ UNCHANGED <<text, resolverVars, fakePool, restored, entityVars, cacheVars, threadVars, engineVars, deanonVars, redisVars>>

\* one iteration of the loop of _anonymize_entities; the custom generator of
\* the entity type is looked up and handed to generate_fake_value; the
\* registered generators return any value of the pool
AnonIter ==
    /\ pc = "anonymizing"
    /\ \E fake_value \in generate_fake_value(
                             config.language, Head(todo).entity_type, Head(todo).text,
                             CustomGeneratorFor(config.custom_fake_generators,
                                                Head(todo).entity_type),
                             fakePool, TokenHex4) :
         LET entity == Head(todo)
         IN  /\ entities_map' = RecordEntity(entities_map, entity, fake_value)
             /\ anonymized_text' = SubstituteSpan(anonymized_text, entity, fake_value)
             /\ calls' = Append(calls, <<entity, fake_value>>)
    /\ todo' = Tail(todo)
    /\ pc' = IF Tail(todo) = <<>> THEN "anonymized" ELSE "anonymizing"
    /\ UNCHANGED <<text, resolverVars, fakePool, restored, entityVars, cacheVars, threadVars, engineVars, deanonVars, redisVars>>

\* the caller reverses the substitution with the map it was given
Deanonymize ==
    /\ pc = "anonymized"
    /\ restored' = deanonymize_text(anonymized_text, entities_map)
    /\ pc' = "restored"
    /\ UNCHANGED <<text, resolverVars, todo, anonymized_text, entities_map, calls,
                   fakePool, entityVars, cacheVars, threadVars, engineVars, deanonVars, redisVars>>

\* EntityMatch(**args)
Construct ==
    /\ pc = "construct"
    /\ raised' = PostInitError(args.start, args.end, args.confidence)
    /\ made' = IF raised' = ""
               THEN {EntityMatch(args.entity_type, args.start, args.end, args.text,
                                 args.confidence)}
               ELSE {}
    /\ pc' = "constructed"
    /\ UNCHANGED <<text, resolverVars, anonVars, fakePool, args, cacheVars, threadVars, engineVars, deanonVars, redisVars>>

\* the keys by last access after key was accessed
Touch(h, key) == Append(SelectSeq(h, LAMBDA x : x # key), key)

\* the record of the sets after set(key, value): a new key on a full cache
\* evicts the key whose last access is the oldest
Remember(key, value) ==
    LET live == DOMAIN lastSet
        oldest == history[CHOOSE i \in DOMAIN history :
                              /\ history[i] \in live
                              /\ \A j \in 1..(i - 1) : history[j] \notin live]
        kept == IF key \notin live /\ Cardinality(live) >= maxsize
                THEN DictDel(lastSet, oldest) ELSE lastSet
    IN  DictPut(kept, key,
                [value |-> value,
                 previous |-> IF key \in live THEN lastSet[key].value ELSE None])

\* ThreadSafeLRUCache.get(key)
Get(key) ==
    /\ pc = "cache"
    /\ LET r == LruGet(_cache, _access_order, key)
       IN  /\ ret' = r.ret
           /\ _access_order' = r.order
    /\ history' = IF key \in DOMAIN _cache THEN Touch(history, key) ELSE history
    /\ op' = [name |-> "get", key |-> key, value |-> None]
    /\ raised' = ""
    /\ UNCHANGED <<pc, text, resolverVars, anonVars, fakePool, args, made,
                   maxsize, _cache, lastSet, threadVars, engineVars, deanonVars, redisVars>>

\* ThreadSafeLRUCache.set(key, value)
Set(key, value) ==
    /\ pc = "cache"
    /\ LET r == LruSet(_cache, _access_order, maxsize, key, value)
       IN  /\ _cache' = r.cache
           /\ _access_order' = r.order
           /\ raised' = r.raised
           /\ history' = IF r.raised = "" THEN Touch(history, key) ELSE history
           /\ lastSet' = IF r.raised = "" THEN Remember(key, value) ELSE lastSet
    /\ ret' = None
    /\ op' = [name |-> "set", key |-> key, value |-> value]
    /\ UNCHANGED <<pc, text, resolverVars, anonVars, fakePool, args, made, maxsize,
                   threadVars, engineVars, deanonVars, redisVars>>

\* ThreadSafeLRUCache.clear()
Clear ==
    /\ pc = "cache"
    /\ _cache' = EmptyDict
    /\ _access_order' = <<>>
    /\ ret' = None
    /\ op' = [name |-> "clear", key |-> 0, value |-> None]
    /\ raised' = ""
    /\ lastSet' = EmptyDict
    /\ UNCHANGED <<pc, text, resolverVars, anonVars, fakePool, args, made,
                   maxsize, history, threadVars, engineVars, deanonVars, redisVars>>

----------------------------------------------------------------------------
(* cache.py: ThreadSafeLRUCache called by several threads, statement by statement *)

\* faulty variant: the lock never makes a thread wait
LockNeverHeld(t) == TRUE

\* with self._lock: an RLock is taken when it is free or held by the same thread
LockAvailable(t) == lock \in {None, t}

\* the thread's record with its position (and other fields) changed
At(t, position) == [thr EXCEPT ![t].pc = position]
Raise(t, exception) == [thr EXCEPT ![t].pc = "release", ![t].raised = exception]

otherCacheVars == <<op, ret, history, lastSet>>

\* thread t calls get(key), set(key, value) or clear()
ThreadCall(t, name, key, value) ==
    /\ pc = "threads"
    /\ thr[t].pc = "idle"
    /\ thr' = [thr EXCEPT ![t] = [pc |-> "acquire", name |-> name, key |-> key,
                                  value |-> value, oldest |-> 0, ret |-> None,
                                  expect |-> None, raised |-> ""]]
    /\ UNCHANGED <<pc, text, resolverVars, anonVars, entityVars,
                   maxsize, _cache, _access_order, otherCacheVars, lock, lin,
                   engineVars, deanonVars, redisVars>>

\* thread t enters the with block of its operation; the operation takes its place
\* in the order of the lock
Acquire(t) ==
    /\ pc = "threads"
    /\ thr[t].pc = "acquire"
    /\ LockAvailable(t)
    /\ lock' = t
    /\ LET me == thr[t]
           g == LruGet(lin.cache, lin.order, me.key)
           st == LruSet(lin.cache, lin.order, maxsize, me.key, me.value)
       IN  /\ lin' = CASE me.name = "get" -> [cache |-> lin.cache, order |-> g.order]
                       [] me.name = "set" -> [cache |-> st.cache, order |-> st.order]
                       [] OTHER -> [cache |-> EmptyDict, order |-> <<>>]
           /\ thr' = [thr EXCEPT ![t].pc = CASE me.name = "get" -> "get_test"
                                             [] me.name = "set" -> "set_test"
                                             [] OTHER -> "clear_cache",
                                 ![t].expect = IF me.name = "get" THEN g.ret ELSE None]
    /\ UNCHANGED <<pc, text, resolverVars, anonVars, entityVars,
                   maxsize, _cache, _access_order, otherCacheVars, engineVars, deanonVars, redisVars>>

\* one statement of get (cache.py 21-26) by thread t
GetStep(t) ==
    /\ pc = "threads"
    /\ LET me == thr[t]
       IN  \/ /\ me.pc = "get_test"
              /\ thr' = IF me.key \in DOMAIN _cache
                        THEN At(t, "get_remove") ELSE At(t, "release")
              /\ UNCHANGED _access_order
           \/ /\ me.pc = "get_remove"
              /\ IF me.key \in Range(_access_order)
                 THEN /\ _access_order' = ListRemove(_access_order, me.key)
                      /\ thr' = At(t, "get_append")
                 ELSE /\ thr' = Raise(t, "ValueError")
                      /\ UNCHANGED _access_order
           \/ /\ me.pc = "get_append"
              /\ _access_order' = Append(_access_order, me.key)
              /\ thr' = At(t, "get_return")
           \/ /\ me.pc = "get_return"
              /\ thr' = IF me.key \in DOMAIN _cache
                        THEN [thr EXCEPT ![t].pc = "release", ![t].ret = _cache[me.key]]
                        ELSE Raise(t, "KeyError")
              /\ UNCHANGED _access_order
    /\ UNCHANGED <<pc, text, resolverVars, anonVars, entityVars,
                   maxsize, _cache, otherCacheVars, lock, lin, engineVars, deanonVars, redisVars>>

\* one statement of set (cache.py 30-38) by thread t
SetStep(t) ==
    /\ pc = "threads"
    /\ LET me == thr[t]
       IN  \/ /\ me.pc = "set_test"
              /\ thr' = IF me.key \in DOMAIN _cache THEN At(t, "set_remove")
                        ELSE IF Cardinality(DOMAIN _cache) >= maxsize
                             THEN At(t, "set_pop") ELSE At(t, "set_store")
              /\ UNCHANGED <<_cache, _access_order>>
           \/ /\ me.pc = "set_remove"
              /\ IF me.key \in Range(_access_order)
                 THEN /\ _access_order' = ListRemove(_access_order, me.key)
                      /\ thr' = At(t, "set_store")
                 ELSE /\ thr' = Raise(t, "ValueError")
                      /\ UNCHANGED _access_order
              /\ UNCHANGED _cache
           \/ /\ me.pc = "set_pop"
              /\ IF _access_order # <<>>
                 THEN /\ _access_order' = Tail(_access_order)
                      /\ thr' = [thr EXCEPT ![t].pc = "set_del",
                                            ![t].oldest = Head(_access_order)]
                 ELSE /\ thr' = Raise(t, "IndexError")
                      /\ UNCHANGED _access_order
              /\ UNCHANGED _cache
           \/ /\ me.pc = "set_del"
              /\ IF me.oldest \in DOMAIN _cache
                 THEN /\ _cache' = DictDel(_cache, me.oldest)
                      /\ thr' = At(t, "set_store")
                 ELSE /\ thr' = Raise(t, "KeyError")
                      /\ UNCHANGED _cache
              /\ UNCHANGED _access_order
           \/ /\ me.pc = "set_store"
              /\ _cache' = DictPut(_cache, me.key, me.value)
              /\ thr' = At(t, "set_append")
              /\ UNCHANGED _access_order
           \/ /\ me.pc = "set_append"
              /\ _access_order' = Append(_access_order, me.key)
              /\ thr' = At(t, "release")
              /\ UNCHANGED _cache
    /\ UNCHANGED <<pc, text, resolverVars, anonVars, entityVars,
                   maxsize, otherCacheVars, lock, lin, engineVars, deanonVars, redisVars>>

\* one statement of clear (cache.py 42-43) by thread t
ClearStep(t) ==
    /\ pc = "threads"
    /\ LET me == thr[t]
       IN  \/ /\ me.pc = "clear_cache"
              /\ _cache' = EmptyDict
              /\ thr' = At(t, "clear_order")
              /\ UNCHANGED _access_order
           \/ /\ me.pc = "clear_order"
              /\ _access_order' = <<>>
              /\ thr' = At(t, "release")
              /\ UNCHANGED _cache
    /\ UNCHANGED <<pc, text, resolverVars, anonVars, entityVars,
                   maxsize, otherCacheVars, lock, lin, engineVars, deanonVars, redisVars>>

\* thread t leaves the with block, by return or by exception
Release(t) ==
    /\ pc = "threads"
    /\ thr[t].pc = "release"
    /\ lock' = None
    /\ thr' = At(t, "idle")
    /\ UNCHANGED <<pc, text, resolverVars, anonVars, entityVars,
                   maxsize, _cache, _access_order, otherCacheVars, lin, engineVars, deanonVars, redisVars>>

----------------------------------------------------------------------------
(* analyzer.py: analyze_async *)

\* a call of analyze_async suspended at its await: its arguments and its
\* caller, and the entries of the cache and the length of the trace when it
\* was called
SuspendedCall(txt, language, entities, caller, c, before) ==
    [text |-> txt, language |-> language, entities |-> entities, caller |-> caller,
     cache |-> c, called |-> Len(before)]

\* analyze_async up to its await (analyzer.py 98-113), on the cache c of the
\* analyzer; before is the trace up to the call. A call that misses is
\* suspended at the await; other calls can run before it is resumed
AnalyzeAsync(strat, c, order, executor, txt, language, entities, caller, before) ==
    LET cache_key == _get_cache_key(txt, language, entities)
        cached == CacheGet(strat, c, order, cache_key)
    IN  /\ text' = txt
        /\ request' = [language |-> language, entities |-> entities, caller |-> caller]
        /\ _cache' = c
        /\ _access_order' = cached.order
        /\ IF IsNotNone(strat, c, cache_key)
           THEN /\ detected' = cached.ret
                /\ trace' = Append(before, Event("hit", cache_key))
                /\ raised' = ""
                /\ suspended' = suspended
                /\ pc' = Returned(caller)
           ELSE IF ~executor
                THEN /\ detected' = <<>>
                     /\ trace' = before \o <<Event("miss", cache_key),
                                              RaiseEvent(cache_key, "ImportError")>>
                     /\ raised' = Propagated("ImportError", caller)
                     /\ suspended' = suspended
                     /\ pc' = Failed(caller)
                ELSE /\ detected' = <<>>
                     /\ trace' = before \o <<Event("miss", cache_key),
                                              Event("detect", cache_key)>>
                     /\ raised' = ""
                     /\ suspended' = [id \in DOMAIN suspended \cup {NumCalls(before)} |->
                                       IF id \in DOMAIN suspended THEN suspended[id]
                                       ELSE SuspendedCall(txt, language, entities, caller,
                                                      c, before)]
                     /\ pc' = Awaiting(caller)

\* a caller calls analyzer.analyze_async(txt, language, entities), while
\* earlier calls may be suspended at their await
AnalyzeCall(txt, language, entities) ==
    /\ pc = "analyzer"
    /\ NumCalls(trace) < MaxCalls
    /\ AnalyzeAsync(strategy, _cache, _access_order, _executor, txt, language, entities,
                    "direct", Append(trace, Event("call", "analyze_async")))
    /\ UNCHANGED <<threshold, filtered, merged, anonVars, args, made, maxsize,
                   otherCacheVars, threadVars, _executor, strategy, config, result,
                   deanonVars, redisVars>>

\* the detection of the suspended call id returns; analyze_async stores the
\* result and returns it (analyzer.py 115-117)
DetectReturn(id, detection) ==
    /\ id \in DOMAIN suspended
    /\ LET call == suspended[id]
           cache_key == _get_cache_key(call.text, call.language, call.entities)
           st == CacheSet(strategy, _cache, _access_order, maxsize, cache_key, detection)
       IN  /\ text' = call.text
           /\ request' = [language |-> call.language, entities |-> call.entities,
                          caller |-> call.caller]
           /\ _cache' = st.cache
           /\ _access_order' = st.order
           /\ trace' = Append(trace, Event("set", cache_key))
           /\ raised' = IF st.raised = "" THEN "" ELSE Propagated(st.raised, call.caller)
           /\ detected' = IF st.raised = "" THEN detection ELSE <<>>
           /\ pc' = IF st.raised = "" THEN Returned(call.caller)
                     ELSE Failed(call.caller)
           /\ _executor' = (call.caller # "engine")
    /\ suspended' = [other \in DOMAIN suspended \ {id} |-> suspended[other]]
    /\ UNCHANGED <<threshold, filtered, merged, anonVars, args, made, maxsize,
                   otherCacheVars, threadVars, strategy, config, result,
                   deanonVars, redisVars>>

\* the detection of the suspended call id raises (AnalysisError) or the call
\* is cancelled (CancelledError): analyze_async is left at its await
DetectRaise(id, exception) ==
    /\ id \in DOMAIN suspended
    /\ LET call == suspended[id]
           cache_key == _get_cache_key(call.text, call.language, call.entities)
           after == AfterFailedDetection(strategy, _cache, _access_order, maxsize,
                                         cache_key)
       IN  /\ text' = call.text
           /\ request' = [language |-> call.language, entities |-> call.entities,
                          caller |-> call.caller]
           /\ _cache' = after.cache
           /\ _access_order' = after.order
           /\ trace' = Append(trace, RaiseEvent(cache_key, exception))
           /\ raised' = Propagated(exception, call.caller)
           /\ pc' = Failed(call.caller)
           /\ _executor' = (call.caller # "engine")
    /\ detected' = <<>>
    /\ suspended' = [other \in DOMAIN suspended \ {id} |-> suspended[other]]
    /\ UNCHANGED <<threshold, filtered, merged, anonVars, args, made, maxsize,
                   otherCacheVars, threadVars, strategy, config, result,
                   deanonVars, redisVars>>

----------------------------------------------------------------------------
(* facade.py: anonymize_text_async; processing.py: process_text_async *)

\* anonymize_text_async up to the await of the detection: the ProcessingConfig
\* and the engine with its own cache strategy are built (facade.py 59-69,
\* processing.py 20-23), process_text_async enters a new analyzer and calls
\* analyze_async (processing.py 35-45)
FacadeCall(txt, language, entities_to_anonymize, confidence_threshold, max_workers, chunk_size, cache_enabled, custom_fake_generators) ==
    /\ pc = "facade"
    /\ NumCalls(trace) < MaxCalls
    /\ LET error == ProcessingConfigError(confidence_threshold, max_workers, chunk_size)
           before == Append(trace, Event("call",
                                         [confidence_threshold |-> confidence_threshold,
                                          max_workers |-> max_workers,
                                          chunk_size |-> chunk_size]))
           entities_to_analyze == IF entities_to_anonymize # <<>>
                                  THEN entities_to_anonymize ELSE SupportedEntities
           cache_strategy == IF cache_enabled THEN "lru" ELSE "none"
       IN  IF error # ""
           THEN /\ raised' = error
                /\ trace' = Append(before, RaiseEvent("ProcessingConfig", error))
                /\ pc' = "facade"
                /\ UNCHANGED <<text, threshold, detected, maxsize, _cache, _access_order,
                               _executor, strategy, config, request, suspended>>
           ELSE /\ config' = [language |-> language,
                              entities_to_process |-> entities_to_anonymize,
                              confidence_threshold |-> confidence_threshold,
                              max_workers |-> max_workers, chunk_size |-> chunk_size,
                              cache_enabled |-> cache_enabled,
                              custom_fake_generators |-> custom_fake_generators]
                /\ threshold' = confidence_threshold
                /\ strategy' = cache_strategy
                /\ maxsize' = 1000
                /\ _executor' = TRUE
                /\ AnalyzeAsync(cache_strategy, EmptyDict, <<>>, TRUE, txt, language,
                                entities_to_analyze, "engine", before)
    /\ result' = <<>>
    /\ filtered' = <<>> /\ merged' = <<>>
    /\ todo' = <<>> /\ anonymized_text' = <<>> /\ entities_map' = <<>>
    /\ calls' = <<>>
    /\ UNCHANGED <<fakePool, restored, args, made, otherCacheVars, threadVars,
                   deanonVars, redisVars>>

\* the fake value generator raises inside the loop of _anonymize_entities
GeneratorRaises ==
    /\ pc = "anonymizing"
    /\ raised' = Propagated("KeyError", "engine")
    /\ trace' = Append(trace, RaiseEvent("generate_fake_value", "KeyError"))
    /\ pc' = "facade"
    /\ UNCHANGED <<text, resolverVars, anonVars, args, made, cacheVars, threadVars,
                   _executor, strategy, config, request, suspended, result,
                   deanonVars, redisVars>>

\* process_text_async returns its ProcessingResult (processing.py 54-67)
EngineReturn ==
    /\ pc = "anonymized"
    /\ result' = <<ProcessingResult(anonymized_text, entities_map, Len(merged))>>
    /\ trace' = Append(trace, Event("return", "ProcessingResult"))
    /\ pc' = "facade"
    /\ UNCHANGED <<text, resolverVars, anonVars, entityVars, cacheVars, threadVars,
                   _executor, strategy, config, request, suspended,
                   deanonVars, redisVars>>

----------------------------------------------------------------------------
(* deanonymization.py: deanonymize_text, one replacement at a time *)

\* deanonymize_text(txt, map) is called: the pairs are collected and sorted
DeanonCall(txt, form) ==
    /\ pc = "deanon"
    /\ Len(runs) < MaxRuns
    /\ d_args' = [text |-> txt, form |-> form]
    /\ d_text' = txt
    /\ d_origin' = [i \in DOMAIN txt |-> i]
    /\ d_entities' = SortedByFakeLen(ProcessedEntities(MapOfForm(entities_map, form)))
    /\ pc' = "deanon_loop"
    /\ UNCHANGED <<text, resolverVars, anonVars, entityVars, cacheVars, threadVars,
                   engineVars, runs, redisVars>>

\* one iteration of the replacement loop
DeanonIter ==
    /\ pc = "deanon_loop"
    /\ d_entities # <<>>
    /\ d_text' = RestoreStep(d_text, d_entities[1])
    /\ d_origin' = OriginAfter(d_origin, d_text, d_entities[1])
    /\ d_entities' = Tail(d_entities)
    /\ UNCHANGED <<pc, text, resolverVars, anonVars, entityVars, cacheVars, threadVars,
                   engineVars, d_args, runs, redisVars>>

\* the loop is over: the ProcessingResult is returned
DeanonReturn ==
    /\ pc = "deanon_loop"
    /\ d_entities = <<>>
    /\ runs' = Append(runs, [text |-> d_args.text, form |-> d_args.form,
                             result |-> DeanonymizationResult(d_text,
                                            MapOfForm(entities_map, d_args.form))])
    /\ restored' = d_text
    /\ pc' = "deanon"
    /\ UNCHANGED <<text, resolverVars, todo, anonymized_text, entities_map, calls,
                   fakePool, entityVars, cacheVars, threadVars, engineVars,
                   d_args, d_entities, d_text, d_origin, redisVars>>

----------------------------------------------------------------------------
(* cache.py: NoCacheStrategy *)

\* NoCacheStrategy.get(key)
NoCacheGetCall(key) ==
    /\ pc = "nocache"
    /\ Len(trace) < MaxCalls
    /\ ret' = NoCacheGet(lastSet, key)
    /\ raised' = ""
    /\ op' = [name |-> "get", key |-> key, value |-> None]
    /\ trace' = Append(trace, Event("get", key))
    /\ UNCHANGED <<pc, text, resolverVars, anonVars, args, made, maxsize, _cache,
                   _access_order, history, lastSet, threadVars, _executor, strategy,
                   config, request, suspended, result, deanonVars, redisVars>>

\* NoCacheStrategy.set(key, value): pass
NoCacheSetCall(key, value) ==
    /\ pc = "nocache"
    /\ Len(trace) < MaxCalls
    /\ ret' = None
    /\ raised' = ""
    /\ op' = [name |-> "set", key |-> key, value |-> value]
    /\ lastSet' = DictPut(lastSet, key, value)
    /\ trace' = Append(trace, Event("set", key))
    /\ UNCHANGED <<pc, text, resolverVars, anonVars, args, made, maxsize, _cache,
                   _access_order, history, threadVars, _executor, strategy,
                   config, request, suspended, result, deanonVars, redisVars>>

\* NoCacheStrategy.clear(): pass
NoCacheClearCall ==
    /\ pc = "nocache"
    /\ Len(trace) < MaxCalls
    /\ ret' = None
    /\ raised' = ""
    /\ op' = [name |-> "clear", key |-> 0, value |-> None]
    /\ lastSet' = EmptyDict
    /\ trace' = Append(trace, Event("clear", 0))
    /\ UNCHANGED <<pc, text, resolverVars, anonVars, args, made, maxsize, _cache,
                   _access_order, history, threadVars, _executor, strategy,
                   config, request, suspended, result, deanonVars, redisVars>>

----------------------------------------------------------------------------
(* analyzer.py: _get_cache_key *)

\* analyzer._get_cache_key(txt, language, entities) is called and returns
KeyCall(txt, language, entities) ==
    /\ pc = "key"
    /\ NumCalls(trace) < MaxCalls
    /\ trace' = trace \o <<Event("call", [text |-> txt, language |-> language,
                                           entities |-> entities]),
                            Event("return", _get_cache_key(txt, language, entities))>>
    /\ UNCHANGED <<pc, text, resolverVars, anonVars, entityVars, cacheVars, threadVars,
                   _executor, strategy, config, request, suspended, result, deanonVars, redisVars>>

----------------------------------------------------------------------------
(* fake_generator.py: calls on generator instances *)

\* the generator and the number of values it generated so far
GeneratorState(generator) ==
    [instance |-> generator.instance, language |-> generator.language,
     generated |-> Cardinality({i \in DOMAIN calls : calls[i][1].generator = generator})]

\* generator.generate_entity_id(entity_type, original_value) is called and returns
EntityIdCall(generator, entity_type, original_value) ==
    /\ pc = "id"
    /\ NumCalls(trace) + Len(calls) < MaxCalls
    /\ LET self == GeneratorState(generator)
       IN  trace' = trace \o
               <<Event("call", [self |-> self, entity_type |-> entity_type,
                                original_value |-> original_value]),
                 Event("return", GenerateEntityIdOn(self, entity_type, original_value))>>
    /\ UNCHANGED <<pc, text, resolverVars, anonVars, entityVars, cacheVars, threadVars,
                   _executor, strategy, config, request, suspended, result, deanonVars, redisVars>>

\* generator.generate_fake_value(entity_type, original_value, custom_generator)
\* is called and returns: the custom generator was called, or the generator has
\* drawn from its faker or from secrets
FakeValueCall(generator, entity_type, original_value, custom_generator) ==
    /\ pc = "id"
    /\ NumCalls(trace) + Len(calls) < MaxCalls
    /\ \E fake_value \in generate_fake_value(generator.language, entity_type,
                                              original_value, custom_generator,
                                              fakePool, TokenHex4) :
           calls' = Append(calls, <<[generator |-> generator, entity_type |-> entity_type,
                                     text |-> original_value], fake_value>>)
    /\ UNCHANGED <<pc, text, resolverVars, todo, anonymized_text, entities_map, fakePool,
                   restored, entityVars, cacheVars, threadVars, engineVars, deanonVars,
                   redisVars>>

----------------------------------------------------------------------------
(* redis_cache.py: RedisCache on its store *)

\* RedisCache.get(key)
RedisGetCall(key) ==
    /\ pc = "redis"
    /\ LET r == RedisGet(_redis, _key_prefix, key)
       IN  /\ ret' = r.ret
           /\ raised' = r.raised
    /\ commands' = <<Command("get", _format_key(_key_prefix, key), NoExpiry, <<>>)>>
    /\ op' = [name |-> "get", key |-> key, value |-> PyNone]
    /\ UNCHANGED <<pc, text, resolverVars, anonVars, args, made, maxsize, _cache,
                   _access_order, history, lastSet, threadVars, engineVars, deanonVars,
                   _redis, _key_prefix, _expiration_time, r_args, r_clear>>

\* RedisCache.set(key, value)
RedisSetCall(key, value) ==
    /\ pc = "redis"
    /\ LET r == RedisSet(_redis, _key_prefix, _expiration_time, key, value)
       IN  /\ _redis' = r.store
           /\ commands' = r.commands
           /\ raised' = r.raised
    /\ ret' = PyNone
    /\ op' = [name |-> "set", key |-> key, value |-> value]
    /\ lastSet' = DictPut(lastSet, key, value)
    /\ UNCHANGED <<pc, text, resolverVars, anonVars, args, made, maxsize, _cache,
                   _access_order, history, threadVars, engineVars, deanonVars,
                   _key_prefix, _expiration_time, r_args, r_clear>>

\* RedisCache.clear() is called: pattern = f"{self._key_prefix}*", cursor = 0
RedisClearCall ==
    /\ pc = "redis"
    /\ pc' = "clear_scan"
    /\ r_clear' = NoClear
    /\ commands' = <<>>
    /\ op' = [name |-> "clear", key |-> <<>>, value |-> PyNone]
    /\ UNCHANGED <<text, resolverVars, anonVars, entityVars, maxsize, _cache,
                   _access_order, ret, history, lastSet, threadVars, engineVars,
                   deanonVars, _redis, _key_prefix, _expiration_time, r_args>>

\* clear: cursor, keys = self._redis.scan(cursor, pattern, 100). A scan with
\* cursor 0 starts an iteration over the keys of the pattern; an answer holds
\* any of the stored keys of the pattern (also none, also keys written since),
\* and its cursor is 0 only when every key of the iteration that is still
\* stored has been returned. At most MaxEmptyScans answers of one clear have a
\* cursor other than 0 and none of the keys not yet returned.
RedisClearScan ==
    /\ pc = "clear_scan"
    /\ LET matching == ScanKeys(_redis, _key_prefix)
           pending == IF r_clear.cursor = 0 THEN matching
                      ELSE r_clear.unvisited \cap matching
       IN  \E keys \in SUBSET matching, cursor \in {0, 1} :
               LET unvisited == pending \ keys
                   empty == cursor # 0 /\ unvisited = pending
               IN  /\ cursor = 0 => unvisited = {}
                   /\ empty => r_clear.empty < MaxEmptyScans
                   /\ r_clear' = [cursor |-> cursor, keys |-> keys,
                                  unvisited |-> unvisited,
                                  empty |-> r_clear.empty + (IF empty THEN 1 ELSE 0)]
    /\ commands' = Append(commands, Command("scan", <<_key_prefix, "*">>, NoExpiry,
                                             <<CursorText(r_clear.cursor)>>))
    /\ pc' = "clear_delete"
    /\ UNCHANGED <<text, resolverVars, anonVars, entityVars, cacheVars, threadVars,
                   engineVars, deanonVars, _redis, _key_prefix, _expiration_time, r_args>>

\* clear: if keys: self._redis.delete(*keys); if cursor == 0: break
RedisClearDelete ==
    /\ pc = "clear_delete"
    /\ IF r_clear.keys # {}
       THEN /\ _redis' = [k \in (DOMAIN _redis) \ r_clear.keys |-> _redis[k]]
            /\ commands' = Append(commands, Command("delete", r_clear.keys, NoExpiry, <<>>))
            /\ lastSet' = [key \in {x \in DOMAIN lastSet :
                                       _format_key(_key_prefix, x) \notin r_clear.keys}
                              |-> lastSet[key]]
       ELSE UNCHANGED <<_redis, commands, lastSet>>
    /\ IF r_clear.cursor = 0
       THEN /\ pc' = "redis"
            /\ ret' = PyNone
            /\ raised' = ""
            /\ r_clear' = NoClear
       ELSE /\ pc' = "clear_scan"
            /\ UNCHANGED <<ret, raised, r_clear>>
    /\ UNCHANGED <<text, resolverVars, anonVars, args, made, maxsize, _cache,
                   _access_order, op, history, threadVars, engineVars, deanonVars,
                   _key_prefix, _expiration_time, r_args>>

\* the store drops a key whose time to live has run out
RedisExpire(key) ==
    /\ pc \in {"redis", "clear_scan", "clear_delete"}
    /\ _format_key(_key_prefix, key) \in DOMAIN _redis
    /\ _redis[_format_key(_key_prefix, key)].ttl > 0
    /\ _redis' = DictDel(_redis, _format_key(_key_prefix, key))
    /\ lastSet' = DictDel(lastSet, key)
    /\ op' = [name |-> "expire", key |-> key, value |-> PyNone]
    /\ UNCHANGED <<pc, text, resolverVars, anonVars, entityVars, maxsize, _cache,
                   _access_order, ret, history, threadVars, engineVars, deanonVars,
                   _key_prefix, _expiration_time, r_args, commands, r_clear>>

\* another client of the store writes bytes under a key of the prefix
ForeignWrite(key, bytes) ==
    /\ pc \in {"redis", "clear_scan", "clear_delete"}
    /\ _redis' = DictPut(_redis, _format_key(_key_prefix, key),
                         [value |-> bytes, ttl |-> NoExpiry])
    /\ lastSet' = DictDel(lastSet, key)
    /\ op' = [name |-> "foreign", key |-> key, value |-> PyNone]
    /\ UNCHANGED <<pc, text, resolverVars, anonVars, entityVars, maxsize, _cache,
                   _access_order, ret, history, threadVars, engineVars, deanonVars,
                   _key_prefix, _expiration_time, r_args, commands, r_clear>>

----------------------------------------------------------------------------
(* Specifications *)

Next == Filter \/ Merge

\* the entity resolver on a detection result
Spec == Init /\ [][Next]_vars

NextAnon == AnonStart \/ AnonIter \/ Deanonymize

\* anonymization of a resolved sequence, and its reversal
SpecAnon == InitAnon /\ [][NextAnon]_vars

NextPipeline == Filter \/ Merge \/ AnonStart \/ AnonIter \/ Deanonymize

\* the whole pipeline on the concrete scenario
SpecScenario == InitScenario /\ [][NextPipeline]_vars

NextEntity == Construct

\* construction of one EntityMatch
SpecEntity == InitEntity /\ [][NextEntity]_vars

NextCache ==
    \/ \E key \in Keys : Get(key)
    \/ \E key \in Keys, value \in Values : Set(key, value)
    \/ Clear

\* one ThreadSafeLRUCache under any sequence of operations
SpecCache == InitCache /\ [][NextCache]_vars

NextThreads ==
    \E t \in Threads :
        \/ \E key \in ThreadKeys : ThreadCall(t, "get", key, None)
        \/ \E key \in ThreadKeys, value \in Values : ThreadCall(t, "set", key, value)
        \/ ThreadCall(t, "clear", 0, None)
        \/ Acquire(t)
        \/ GetStep(t)
        \/ SetStep(t)
        \/ ClearStep(t)
        \/ Release(t)

NextAnalyzer ==
    \/ \E txt \in AnalyzerTexts, language \in Languages, entities \in AnalyzerEntityLists :
          AnalyzeCall(txt, language, entities)
    \/ \E id \in DOMAIN suspended :
          \/ \E detection \in DetectionResults(suspended[id].text) :
                 DetectReturn(id, detection)
          \/ \E exception \in {"AnalysisError", "CancelledError"} :
                 DetectRaise(id, exception)

\* one entered analyzer on one ThreadSafeLRUCache; a call can be made while
\* earlier ones are suspended at their await, and they resume in any order
SpecAnalyzer == InitAnalyzer /\ [][NextAnalyzer]_vars

NextFacade ==
    \/ \E txt \in FacadeTexts, language \in {"en"},
          entities_to_anonymize \in FacadeEntityLists,
          confidence_threshold \in RawThresholds, max_workers \in RawMaxWorkers,
          chunk_size \in RawChunkSizes, cache_enabled \in BOOLEAN,
          custom_fake_generators \in FacadeCustomGenerators :
          FacadeCall(txt, language, entities_to_anonymize, confidence_threshold,
                     max_workers, chunk_size, cache_enabled, custom_fake_generators)
    \/ \E id \in DOMAIN suspended :
          \/ \E detection \in DetectionResults(suspended[id].text) :
                 DetectReturn(id, detection)
          \/ \E exception \in {"AnalysisError", "CancelledError"} :
                 DetectRaise(id, exception)
    \/ Filter
    \/ Merge
    \/ AnonStart
    \/ AnonIter
    \/ GeneratorRaises
    \/ EngineReturn

\* one facade, anonymize_text_async called repeatedly, one call at a time
SpecFacade == InitFacade /\ [][NextFacade]_vars

\* one ThreadSafeLRUCache shared by the threads
SpecThreads == InitThreads /\ [][NextThreads]_vars

\* anonymization of entities of types with and without a generator
SpecUnknown == InitUnknown /\ [][NextAnon]_vars

NextNoCache ==
    \/ \E key \in Keys : NoCacheGetCall(key)
    \/ \E key \in Keys, value \in Values : NoCacheSetCall(key, value)
    \/ NoCacheClearCall

\* one NoCacheStrategy under any sequence of operations
SpecNoCache == InitNoCache /\ [][NextNoCache]_vars

NextKey ==
    \E txt \in KeyTexts, language \in Languages, entities \in KeyEntityLists :
        KeyCall(txt, language, entities)

NextId ==
    \E generator \in GeneratorInstances, entity_type \in IdTypes, original_value \in IdValues :
        \/ EntityIdCall(generator, entity_type, original_value)
        \/ \E custom_generator \in IdCustomGenerators :
               FakeValueCall(generator, entity_type, original_value, custom_generator)

\* entity ids asked of several generators, between their other calls
SpecId == InitId /\ [][NextId]_vars

\* the cache keys of a series of requests
SpecKey == InitKey /\ [][NextKey]_vars

NextRedis ==
    \/ \E key \in RedisKeys : RedisGetCall(key)
    \/ \E key \in RedisKeys, value \in RedisValues : RedisSetCall(key, value)
    \/ RedisClearCall
    \/ RedisClearScan
    \/ RedisClearDelete
    \/ \E key \in RedisKeys : RedisExpire(key)
    \/ \E key \in RedisKeys, bytes \in ForeignBytes : ForeignWrite(key, bytes)

\* one RedisCache on a store that another client can write to
SpecRedis == InitRedis /\ [][NextRedis]_vars

\* the texts a caller passes to deanonymize_text: the anonymized text, or
\* the text an earlier call returned
CallerTexts == {anonymized_text} \cup {runs[i].result.anonymized_data : i \in DOMAIN runs}

NextDeanon ==
    \/ \E txt \in CallerTexts, form \in MapForms : DeanonCall(txt, form)
    \/ DeanonIter
    \/ DeanonReturn

\* deanonymize_text called repeatedly on one map, in either form of the map
SpecDeanon == InitDeanon /\ [][NextDeanon]_vars

----------------------------------------------------------------------------
(* Properties of the entity resolver (Spec) *)

Overlap(a, b) == a.start < b.end /\ b.start < a.end

PairwiseDisjoint(s) ==
    \A i, j \in DOMAIN s : i # j => ~Overlap(s[i], s[j])

\* C1: whatever the order, overlaps and containments of the input, the result of
\* _merge_overlapping_entities is sorted ascending by start and each retained
\* match ends no later than the next one starts.
C1_MergeSortedDisjoint ==
    pc = "merged" =>
        \A i \in 1..(Len(merged) - 1) :
            /\ merged[i].start <= merged[i + 1].start
            /\ merged[i].end <= merged[i + 1].start

\* a merge of three matches given out of order, one inside another, two retained
C1_Witness ==
    /\ pc = "merged"
    /\ Len(filtered) = 3 /\ Len(merged) = 2
    /\ filtered[1].start > filtered[2].start
    /\ \E i, j \in DOMAIN filtered :
          /\ filtered[i].start < filtered[j].start
          /\ filtered[j].end < filtered[i].end

\* C3: when the next candidate in start order starts before the end of the last
\* accepted match, the last slot afterwards holds the candidate if its confidence
\* is strictly higher and the existing match otherwise (a tie keeps the
\* first-seen one), the rest of the accumulator is untouched, every retained
\* match is an unmodified input element, and two overlapping matches of different
\* confidence merge to exactly the one of higher confidence.
C3_OverlapKeepsHigherConfidence ==
    (pc = "merged" /\ filtered # <<>>) =>
        LET s == SortedByStart(filtered)
        IN  /\ \A k \in 1..(Len(s) - 1) :
                  LET acc == MergeLoop(s, k)
                      nxt == MergeLoop(s, k + 1)
                      last == acc[Len(acc)]
                      cur == s[k + 1]
                  IN  cur.start < last.end =>
                          /\ Len(nxt) = Len(acc)
                          /\ \A i \in 1..(Len(acc) - 1) : nxt[i] = acc[i]
                          /\ nxt[Len(nxt)] =
                                 IF cur.confidence > last.confidence THEN cur ELSE last
            /\ merged = MergeLoop(s, Len(s))
            /\ Range(merged) \subseteq Range(filtered)
            /\ \A i, j \in DOMAIN filtered :
                  (/\ Len(filtered) = 2
                   /\ i # j
                   /\ Overlap(filtered[i], filtered[j])
                   /\ filtered[i].confidence < filtered[j].confidence)
                  => merged = <<filtered[j]>>

\* a merge in which a later candidate overlaps the accepted match with the same
\* confidence and the first-seen one is kept
C3_Witness ==
    /\ pc = "merged"
    /\ Len(filtered) = 2 /\ Len(merged) = 1
    /\ filtered[1].start = filtered[2].start
    /\ filtered[1].confidence = filtered[2].confidence
    /\ filtered[1] # filtered[2]
    /\ merged = <<filtered[1]>>

\* C4: N pairwise-disjoint matches in any order come back as all N of them,
\* unchanged, sorted ascending by start.
C4_DisjointAllKept ==
    (pc = "merged" /\ PairwiseDisjoint(filtered)) =>
        /\ Len(merged) = Len(filtered)
        /\ Range(merged) = Range(filtered)
        /\ \A i \in 1..(Len(merged) - 1) : merged[i].start < merged[i + 1].start

\* three disjoint matches, two of them touching, given in descending order
C4_Witness ==
    /\ pc = "merged"
    /\ Len(filtered) = 3 /\ PairwiseDisjoint(filtered)
    /\ filtered[1].start > filtered[2].start
    /\ filtered[2].start > filtered[3].start
    /\ filtered[3].end = filtered[2].start
    /\ Len(merged) = 3

\* the number of matches of entities[1..i] with confidence >= threshold
Kept(entities, i) ==
    Cardinality({j \in 1..i : entities[j].confidence >= threshold})

C8_FilterResult ==
    pc \in {"filtered", "merged"} =>
        /\ Len(filtered) = Kept(detected, Len(detected))
        /\ \A i \in DOMAIN detected :
              detected[i].confidence >= threshold
                  => filtered[Kept(detected, i)] = detected[i]
        /\ _filter_entities(filtered, threshold) = filtered
        /\ raised = ""

\* C8: filtering returns exactly the matches with confidence >= threshold
\* (equality retained), in input order, leaves its input unchanged and never
\* fails; filtering the result again with the same threshold returns it unchanged.
C8_FilterSubsequence ==
    /\ []C8_FilterResult
    /\ [][pc' = "filtered" => detected' = detected]_vars

\* a filter that dropped a match and kept one whose confidence equals the threshold
C8_Witness ==
    /\ pc = "filtered"
    /\ Len(detected) = 3 /\ Len(filtered) = 2
    /\ detected[1].confidence = threshold
    /\ detected[2].confidence < threshold
    /\ detected[3].confidence = threshold
    /\ filtered = <<detected[1], detected[3]>>

----------------------------------------------------------------------------
(* Properties of the anonymization transformer and its reversal (SpecAnon) *)

\* the value the fake generator returned for entity
FakeOf(entity) == calls[CHOOSE i \in DOMAIN calls : calls[i][1] = entity][2]

\* the entities are non-overlapping, lie within the text and carry its substrings
WellFormedEntities ==
    /\ IsResolved(merged)
    /\ \A i \in DOMAIN merged :
          /\ merged[i].end <= Len(text)
          /\ merged[i].text = Slice(text, merged[i].start, merged[i].end)

\* the parts of the text outside every span
Gaps ==
    {Slice(text, IF i = 0 THEN 0 ELSE merged[i].end,
                 IF i = Len(merged) THEN Len(text) ELSE merged[i + 1].start) :
        i \in 0..Len(merged)}

\* no fake value occurs in an unsubstituted part of the text
FakesClearOfContext ==
    \A i \in DOMAIN calls : \A g \in Gaps : ~Contains(g, calls[i][2])

\* C2: for non-overlapping entities whose fake values do not occur in the
\* unsubstituted parts of the text, deanonymize_text on the anonymized text and
\* the entity map gives back exactly the original text.
C2_RoundTrip ==
    (pc = "restored" /\ WellFormedEntities /\ FakesClearOfContext) => restored = text

RECURSIVE Rebuilt(_)
\* text[:merged[k].end] with the spans of merged[1..k] replaced, left to right
Rebuilt(k) ==
    IF k = 0 THEN <<>>
    ELSE Rebuilt(k - 1)
         \o Slice(text, IF k = 1 THEN 0 ELSE merged[k - 1].end, merged[k].start)
         \o FakeOf(merged[k])

\* the text with every span replaced by its fake value and the rest verbatim
ExpectedAnonymized ==
    Rebuilt(Len(merged))
    \o SliceFrom(text, IF merged = <<>> THEN 0 ELSE merged[Len(merged)].end)

\* C5: for non-overlapping entities within the text the result is the text with
\* each span replaced by that entity's fake value and everything else verbatim and
\* in order, whatever the lengths of the fake values; the spans are substituted in
\* descending order of start and the offsets of the spans still to be processed
\* stay valid in the working buffer.
C5_SubstitutionPreservesContext ==
    WellFormedEntities =>
        /\ pc \in {"anonymized", "restored"} => anonymized_text = ExpectedAnonymized
        /\ pc = "anonymizing" =>
              /\ \A i \in DOMAIN todo :
                    Slice(anonymized_text, todo[i].start, todo[i].end) = todo[i].text
              /\ calls # <<>> =>
                    /\ Head(todo).end <= calls[Len(calls)][1].start
                    /\ SliceTo(anonymized_text, calls[Len(calls)][1].start)
                           = SliceTo(text, calls[Len(calls)][1].start)
        /\ \A i \in 1..(Len(calls) - 1) : calls[i][1].start > calls[i + 1][1].start

\* two entities with text between them, the first replaced by a longer value
C5_Witness ==
    /\ pc = "anonymized"
    /\ Len(merged) = 2
    /\ merged[1].end < merged[2].start
    /\ Len(FakeOf(merged[1])) > merged[1].end - merged[1].start
    /\ Len(anonymized_text) > Len(text)

\* C7: the entity map holds one AnonymizedEntity per entity: as many entries as
\* entities, and for every entity an entry under its entity_id with the entity's
\* text as original_value and the substituted value as fake_value.
C7_OneEntryPerEntity ==
    pc = "anonymized" =>
        /\ Len(entities_map) = Len(merged)
        /\ \A i \in DOMAIN merged :
              LET entity_id == generate_entity_id(merged[i].entity_type, merged[i].text)
              IN  /\ entity_id \in DictKeys(entities_map)
                  /\ DictGet(entities_map, entity_id).original_value = merged[i].text
                  /\ DictGet(entities_map, entity_id).fake_value = FakeOf(merged[i])

----------------------------------------------------------------------------
(* The concrete scenario (SpecScenario) *)

\* the fake generator returned "Person_1" on its first call and "Person_2" on
\* its second call
ScenarioCalls ==
    /\ Len(calls) = 2
    /\ calls[1][2] = Person_1
    /\ calls[2][2] = Person_2

\* "Person_1 emailed Person_2"
Person1EmailedPerson2 == Person_1 \o SubSeq(AliceEmailedBob, 6, 14) \o Person_2

\* "Person_2 emailed Person_1"
Person2EmailedPerson1 == Person_2 \o SubSeq(AliceEmailedBob, 6, 14) \o Person_1

\* C6 as stated: merge keeps both matches unchanged and, with a fake generator
\* that returns "Person_1" then "Person_2" in call order, the anonymized text is
\* "Person_1 emailed Person_2" and the entity map has two entries.
C6_ScenarioAsStated ==
    (pc = "anonymized" /\ ScenarioCalls) =>
        /\ merged = detected
        /\ anonymized_text = Person1EmailedPerson2
        /\ Len(entities_map) = 2

\* C6 amended: merge keeps both matches unchanged and, with a fake generator that
\* returns "Person_1" then "Person_2" in call order, the anonymized text is
\* "Person_2 emailed Person_1" (the generator is called in descending order of
\* start, so the first value replaces "Bob") and the entity map has two entries.
C6_ScenarioDescendingCalls ==
    /\ pc \in {"merged", "anonymizing", "anonymized", "restored"} => merged = detected
    /\ (pc = "anonymized" /\ ScenarioCalls) =>
          /\ calls[1][1] = merged[2]
          /\ calls[2][1] = merged[1]
          /\ anonymized_text = Person2EmailedPerson1
          /\ Len(entities_map) = 2

\* the scenario has been anonymized with "Person_1" then "Person_2"
C6_Witness ==
    /\ pc = "anonymized"
    /\ ScenarioCalls
    /\ text = AliceEmailedBob
    /\ Len(merged) = 2

----------------------------------------------------------------------------
(* Properties of EntityMatch (SpecEntity) *)

\* C9: constructing an EntityMatch succeeds exactly when 0 <= start < end and
\* 0 <= confidence <= 1; otherwise the constructor raises a ValueError and no
\* object comes into existence.
C9_ConstructionValidates ==
    pc = "constructed" =>
        LET valid == /\ 0 <= args.start
                     /\ args.start < args.end
                     /\ 0 <= args.confidence
                     /\ args.confidence <= ConfidenceOne
        IN  /\ valid =>
                  /\ raised = ""
                  /\ made = {[entity_type |-> args.entity_type, start |-> args.start,
                              end |-> args.end, text |-> args.text,
                              confidence |-> args.confidence]}
            /\ ~valid =>
                  /\ made = {}
                  /\ raised \in {"ValueError: Invalid entity position",
                                 "ValueError: Confidence must be between 0 and 1"}

\* a construction with end = start and a valid confidence was rejected
C9_Witness ==
    /\ pc = "constructed"
    /\ args.start >= 0 /\ args.end = args.start
    /\ args.confidence = ConfidenceOne
    /\ made = {}
    /\ raised = "ValueError: Invalid entity position"

----------------------------------------------------------------------------
(* Properties of ThreadSafeLRUCache (SpecCache) *)

\* the stored key whose last access (get hit or set) is the oldest
LeastRecentlyUsed ==
    history[CHOOSE i \in DOMAIN history :
                /\ history[i] \in DOMAIN _cache
                /\ \A j \in 1..(i - 1) : history[j] \notin DOMAIN _cache]

\* a set of a key that is not stored, on a full cache
StepSetsNewKeyAtCapacity ==
    /\ op'.name = "set"
    /\ op'.key \notin DOMAIN _cache
    /\ Cardinality(DOMAIN _cache) = maxsize

\* a get of a stored key
StepGetHits ==
    /\ op'.name = "get"
    /\ op'.key \in DOMAIN _cache

\* C10: a set of a new key on a full cache removes exactly one entry, the key
\* whose last access (get hit or set) is the oldest; every other stored key is
\* kept with its value, the new key is stored and the evicted key misses; a get
\* hit makes its key the most recently used.
C10_LruEviction ==
    [][/\ StepSetsNewKeyAtCapacity =>
             /\ raised' = ""
             /\ DOMAIN _cache' = ((DOMAIN _cache) \ {LeastRecentlyUsed}) \cup {op'.key}
             /\ LeastRecentlyUsed \in DOMAIN _cache
             /\ \A k \in (DOMAIN _cache) \ {LeastRecentlyUsed} : _cache'[k] = _cache[k]
             /\ _cache'[op'.key] = op'.value
             /\ LruGet(_cache', _access_order', LeastRecentlyUsed).ret = None
       /\ StepGetHits =>
             /\ ret' = _cache[op'.key]
             /\ _cache' = _cache
             /\ _access_order'[Len(_access_order')] = op'.key
             /\ Cardinality(DOMAIN _cache) > 1 => LeastRecentlyUsed' # op'.key
      ]_vars

\* a set of a third key on a full cache of two entries has just evicted the key
\* whose last access was the oldest
C10_Witness ==
    /\ op.name = "set"
    /\ maxsize = 2
    /\ Cardinality(DOMAIN _cache) = 2
    /\ Len(history) = 3
    /\ history[1] \notin DOMAIN _cache
    /\ history[3] = op.key
    /\ _access_order = <<history[2], history[3]>>

\* C11: a get of a key that is not stored returns None, raises nothing and leaves
\* the cache as it was (so every get on an untouched cache and every get after a
\* clear misses); a get of a key that was set and has not since been evicted or
\* cleared returns the value of the most recent set of that key (a second set
\* overwrites the first).
C11_GetSetClear ==
    [][/\ (op'.name = "get" /\ op'.key \notin DOMAIN lastSet) =>
             /\ ret' = None
             /\ raised' = ""
             /\ _cache' = _cache
             /\ _access_order' = _access_order
       /\ (op'.name = "get" /\ op'.key \in DOMAIN lastSet) =>
             /\ ret' = lastSet[op'.key].value
             /\ raised' = ""
       /\ op'.name = "set" =>
             /\ raised' = ""
             /\ LruGet(_cache', _access_order', op'.key).ret = op'.value
       /\ op'.name = "clear" =>
             \A k \in Keys : LruGet(_cache', _access_order', k).ret = None
       /\ (_cache = EmptyDict /\ _access_order = <<>>) =>
             \A k \in Keys : LruGet(_cache, _access_order, k).ret = None
      ]_vars

\* a get has just returned the second of two values set on its key
C11_Witness ==
    /\ op.name = "get"
    /\ op.key \in DOMAIN lastSet
    /\ Cardinality(DOMAIN lastSet) = 2
    /\ \E k \in Keys : k \notin DOMAIN lastSet /\ k \in Range(history)
    /\ lastSet[op.key].previous # None
    /\ lastSet[op.key].previous # lastSet[op.key].value
    /\ ret = lastSet[op.key].value

----------------------------------------------------------------------------
(* Properties of the shared cache (SpecThreads) *)

\* the positions inside the with block
CriticalSection ==
    {"get_test", "get_remove", "get_append", "get_return", "set_test", "set_remove",
     "set_pop", "set_del", "set_store", "set_append", "clear_cache", "clear_order",
     "release"}

\* _access_order lists exactly the stored keys, each once
OrderMatchesCache ==
    /\ Range(_access_order) = DOMAIN _cache
    /\ Len(_access_order) = Cardinality(DOMAIN _cache)

\* C12: in every interleaving of threads calling get, set and clear on one cache,
\* at most one thread is inside an operation; no operation raises; every value an
\* operation returns, and the cache whenever no operation is in progress, are
\* those of running the operations one at a time in the order in which they took
\* the lock; the key map and the recency list then hold the same keys.
C12_OperationsAtomic ==
    /\ \A t, u \in Threads :
          (thr[t].pc \in CriticalSection /\ thr[u].pc \in CriticalSection) => t = u
    /\ \A t \in Threads :
          /\ thr[t].raised = ""
          /\ thr[t].pc \in CriticalSection => lock = t
          /\ thr[t].pc \in {"release", "idle"} => thr[t].ret = thr[t].expect
    /\ lock = None =>
          /\ _cache = lin.cache
          /\ _access_order = lin.order
          /\ OrderMatchesCache

\* a thread is between the two statements of an eviction while another thread
\* waits for the lock to get the key that is being evicted
C12_Witness ==
    \E t, u \in Threads :
        /\ t # u
        /\ thr[t].pc = "set_del"
        /\ thr[u].pc = "acquire"
        /\ thr[u].name = "get"
        /\ thr[u].key = thr[t].oldest
        /\ lock = t

----------------------------------------------------------------------------
(* Properties of analyze_async (SpecAnalyzer) *)

\* the key of the request of the step's call
RequestKey == _get_cache_key(text', request'.language, request'.entities)

\* the events the step added to the trace
Added == SubSeq(trace', Len(trace) + 1, Len(trace'))

\* the number of detections the step started
DetectionsStarted ==
    Cardinality({i \in DOMAIN Added : Added[i].event = "detect"})

\* the step is a call of analyze_async
StepCall == Len(trace') > Len(trace) /\ Added[1] = Event("call", "analyze_async")

\* the step is a call of analyze_async whose key is stored / is not stored
StepCallHits == StepCall /\ RequestKey \in DOMAIN _cache
StepCallMisses == StepCall /\ RequestKey \notin DOMAIN _cache

\* the suspended calls the step resumes
Resumed == DOMAIN suspended \ DOMAIN suspended'

\* the step resumes a suspended call: its detection has returned / has raised
\* or the call was cancelled
StepDetectionReturns == Resumed # {} /\ raised' = ""
StepDetectionFails == Resumed # {} /\ raised' # ""

\* the number of events of the kind in the trace tr
NumEvents(tr, kind) == Cardinality({i \in DOMAIN tr : tr[i].event = kind})

\* C13: a call of analyze_async whose key is stored (an empty list included)
\* returns the stored list without starting a detection; a call whose key is not
\* stored starts exactly one detection, for that key, and is suspended; when its
\* detection returns, whatever other calls ran in between, the result is stored
\* under the key and returned, no further detection is started, and the same
\* request then finds the key stored. Every call that missed has started one
\* detection.
C13_CacheHitMiss ==
    [][/\ StepCallHits =>
             /\ detected' = _cache[RequestKey]
             /\ DetectionsStarted = 0
             /\ _cache' = _cache
             /\ raised' = ""
             /\ suspended' = suspended
       /\ StepCallMisses =>
             /\ DetectionsStarted = 1
             /\ Added[Len(Added)] = Event("detect", RequestKey)
             /\ _cache' = _cache
             /\ DOMAIN suspended' = DOMAIN suspended \cup {NumCalls(trace')}
             /\ NumCalls(trace') \notin DOMAIN suspended
             /\ \A id \in DOMAIN suspended : suspended'[id] = suspended[id]
       /\ StepDetectionReturns =>
             /\ \A id \in Resumed :
                    RequestKey = _get_cache_key(suspended[id].text, suspended[id].language,
                                                suspended[id].entities)
             /\ DetectionsStarted = 0
             /\ RequestKey \in DOMAIN _cache'
             /\ _cache'[RequestKey] = detected'
             /\ IsNotNone(strategy', _cache', RequestKey)
             /\ CacheGet(strategy', _cache', _access_order', RequestKey).ret = detected'
       /\ NumEvents(trace', "detect") = NumEvents(trace', "miss")
       /\ Cardinality(Resumed) <= 1
      ]_vars

\* two identical calls both missed before either detection returned, both
\* detections ran and both results were stored; a third identical call has
\* returned the list the second one stored
C13_Witness ==
    /\ Len(trace) = 10
    /\ trace[2].event = "miss" /\ trace[3].event = "detect"
    /\ trace[5].event = "miss" /\ trace[5].key = trace[2].key
    /\ trace[6].event = "detect"
    /\ trace[7].event = "set" /\ trace[7].key = trace[2].key
    /\ trace[8].event = "set" /\ trace[8].key = trace[2].key
    /\ trace[10].event = "hit" /\ trace[10].key = trace[2].key
    /\ suspended = EmptyDict
    /\ detected = _cache[trace[2].key]
    /\ detected # <<>>

\* the sets the calls made after position called of the trace: their keys
KeysSetSince(called) == {trace[i].key : i \in {k \in DOMAIN trace : k > called /\ trace[k].event = "set"}}

\* C15: when the detection started by analyze_async raises or the call is
\* cancelled, the call performs no cache set: the step leaves the entries,
\* their values and the recency list as they are and stores nothing under the
\* key of the request. When no other call has stored a result since the call
\* was made, the entries are those the cache had before the call; when none
\* has stored one under the key of the request, nothing is stored under that
\* key and the same request made next misses; what is stored under the key
\* otherwise is the list a detection of an identical call returned.
C15_FailureWritesNothing ==
    [][StepDetectionFails =>
           \A id \in Resumed :
               /\ RequestKey = _get_cache_key(suspended[id].text, suspended[id].language,
                                              suspended[id].entities)
               /\ _cache' = _cache
               /\ _access_order' = _access_order
               /\ \A i \in DOMAIN Added : Added[i].event # "set"
               /\ detected' = <<>>
               /\ KeysSetSince(suspended[id].called) = {} => _cache' = suspended[id].cache
               /\ RequestKey \notin KeysSetSince(suspended[id].called) =>
                      /\ RequestKey \notin DOMAIN _cache'
                      /\ ~IsNotNone(strategy', _cache', RequestKey)
               /\ RequestKey \in DOMAIN _cache' =>
                      /\ RequestKey \in KeysSetSince(suspended[id].called)
                      /\ _cache'[RequestKey] \in DetectionResults(text')
      ]_vars

\* C15 as stated: after a call whose detection raised or that was cancelled,
\* the entries of the cache are those from before the call, and the same
\* request made next misses.
C15_CacheAsBeforeTheCall ==
    [][StepDetectionFails =>
           \A id \in Resumed :
               /\ _cache' = suspended[id].cache
               /\ RequestKey \notin DOMAIN _cache'
               /\ ~IsNotNone(strategy', _cache', RequestKey)
      ]_vars

\* a call was cancelled after a call made during its await had stored a list
\* under another key; the same request made again missed and started a
\* second detection
C15_Witness ==
    /\ Len(trace) = 11
    /\ trace[2].event = "miss" /\ trace[3].event = "detect"
    /\ trace[5].event = "miss" /\ trace[5].key # trace[2].key
    /\ trace[7].event = "set" /\ trace[7].key = trace[5].key
    /\ trace[8].event = "raise" /\ trace[8].key = trace[2].key
    /\ trace[8].exception = "CancelledError"
    /\ trace[10].event = "miss" /\ trace[10].key = trace[2].key
    /\ trace[11].event = "detect"
    /\ DOMAIN _cache = {trace[5].key}

----------------------------------------------------------------------------
(* Properties of anonymize_text_async (SpecFacade) *)

\* the step is a call of anonymize_text_async that passed the validation of its
\* ProcessingConfig
StepFacadeCallAccepted ==
    /\ pc = "facade"
    /\ Len(trace') > Len(trace)
    /\ Added[Len(Added)].event # "raise"

\* the step is a call of anonymize_text_async whose ProcessingConfig was rejected
StepFacadeCallRejected ==
    /\ pc = "facade"
    /\ Len(trace') > Len(trace)
    /\ Added[Len(Added)].event = "raise"

\* the step repeats the request of the call before it, which returned a result,
\* both with cache_enabled=True
StepRepeatsRequest ==
    /\ StepFacadeCallAccepted
    /\ result # <<>>
    /\ trace[Len(trace)].event = "return"
    /\ config.cache_enabled /\ config'.cache_enabled
    /\ text' = text
    /\ request' = request

\* C14: with cache_enabled=True, a call of anonymize_text_async that repeats the
\* request of the call just before it is served from the detection cache the
\* first call filled: it starts no detection.
C14_SecondCallServedFromCache ==
    [][StepRepeatsRequest =>
           /\ DetectionsStarted = 0
           /\ Added[Len(Added)] = Event("hit", RequestKey)
      ]_vars

\* the exceptions that are failures of the pipeline
PipelineFailures == {"AnalysisError", "KeyError", "ValueError", "IndexError"}

\* C16: when the detection or the fake value generator raises inside
\* process_text_async, the caller receives a ProcessingError, never the
\* exception that was raised, and no ProcessingResult; whatever the stage, the
\* only failure a call that passed the validation of its configuration lets
\* through is ProcessingError.
C16_FailuresWrapped ==
    [][/\ (pc \in {"detecting", "anonymizing"} /\ Len(trace') > Len(trace)
           /\ Added[Len(Added)].event = "raise"
           /\ Added[Len(Added)].exception \in PipelineFailures) =>
             /\ raised' = "ProcessingError"
             /\ raised' # Added[Len(Added)].exception
             /\ result' = <<>>
             /\ pc' = "facade"
       /\ (pc \in {"detecting", "detected", "filtered", "merged", "anonymizing",
                   "anonymized"}) =>
             /\ raised' \in {"", "ProcessingError", "CancelledError"}
             /\ raised' # "" => result' = <<>>
      ]_vars

\* a detection found an entity and the fake value generator raised: the caller
\* got a ProcessingError and no result
C16_Witness ==
    /\ pc = "facade"
    /\ raised = "ProcessingError"
    /\ result = <<>>
    /\ Len(merged) = 1
    /\ trace[Len(trace)] = RaiseEvent("generate_fake_value", "KeyError")

\* C17: a call of anonymize_text_async with a confidence threshold outside
\* [0, 1], max_workers < 1 or chunk_size < 100 is rejected when its
\* ProcessingConfig is built: no cache lookup, no detection and no cache set is
\* made, the cache is untouched, no result is returned, and the caller receives
\* the ValueError of the configuration, which is neither a ProcessingError nor
\* an AnalysisError; every other call is accepted.
C17_ConfigRejectedFirst ==
    [][(pc = "facade" /\ Len(trace') > Len(trace)) =>
           LET bad == \/ ~(0 <= Added[1].key.confidence_threshold
                           /\ Added[1].key.confidence_threshold <= ConfidenceOne)
                      \/ Added[1].key.max_workers < 1
                      \/ Added[1].key.chunk_size < 100
           IN  /\ bad <=> StepFacadeCallRejected
               /\ bad =>
                     /\ Len(Added) = 2
                     /\ \A i \in DOMAIN Added :
                           Added[i].event \notin {"hit", "miss", "detect", "set"}
                     /\ raised' \in {"ValueError: Confidence threshold must be between 0 and 1",
                                     "ValueError: max_workers must be at least 1",
                                     "ValueError: chunk_size must be at least 100"}
                     /\ raised' \notin {"ProcessingError", "AnalysisError"}
                     /\ result' = <<>>
                     /\ pc' = "facade"
                     /\ UNCHANGED <<_cache, _access_order, strategy, config>>
      ]_vars

\* a call with a valid threshold, valid max_workers and chunk_size 99 was rejected
\* after an earlier call had returned a result
C17_Witness ==
    /\ pc = "facade"
    /\ raised = "ValueError: chunk_size must be at least 100"
    /\ result = <<>>
    /\ \E i \in DOMAIN trace : trace[i].event = "return"
    /\ trace[Len(trace)].event = "raise"
    /\ trace[Len(trace) - 1].key.confidence_threshold = 5
    /\ trace[Len(trace) - 1].key.max_workers = 4
    /\ trace[Len(trace) - 1].key.chunk_size = 99

----------------------------------------------------------------------------
(* Properties of deanonymize_text (SpecDeanon) *)

\* an iteration of the replacement loop is taken
StepDeanonIter ==
    pc = "deanon_loop" /\ d_entities # <<>> /\ d_entities' = Tail(d_entities)

\* the starts of all occurrences of sub in txt, overlapping ones included
Occurrences(txt, sub) ==
    {i \in 1..(Len(txt) - Len(sub) + 1) : SubSeq(txt, i, i + Len(sub) - 1) = sub}

ProperSubstring(short, long) == Len(short) < Len(long) /\ Contains(long, short)

\* the pairs of the map of the running call
CallPairs == Range(ProcessedEntities(MapOfForm(entities_map, d_args.form)))

\* the characters of the text of the call that the iteration about to be
\* taken replaces, as indices of that text
ReplacedOrigins ==
    LET n == Len(d_entities[1].fake_value)
    IN  {d_origin[m + k] : m \in Range(Matches(d_text, d_entities[1].fake_value)),
                          k \in 0..(n - 1)} \ {0}

\* the occurrence at index i of the text of the call is replaced as a whole
\* by the iteration about to be taken
ReplacedWhole(i) ==
    \E m \in Range(Matches(d_text, d_entities[1].fake_value)) :
        \A k \in 0..(Len(d_entities[1].fake_value) - 1) : d_origin[m + k] = i + k

\* the iteration's pair is at least as long as every pair still to come
LongestFirst ==
    \A i \in DOMAIN d_entities' :
        Len(d_entities'[i].fake_value) <= Len(d_entities[1].fake_value)

\* after the iteration no run of characters of the text of the call spells
\* the fake value of the pair
EveryOccurrenceReplaced ==
    \A m \in Occurrences(d_text', d_entities[1].fake_value) :
        \E k \in 0..(Len(d_entities[1].fake_value) - 1) :
            \/ d_origin'[m + k] = 0
            \/ d_origin'[m + k] # d_origin'[m] + k

\* a pair whose fake value contains another pair's fake value has every
\* occurrence in the text of the call replaced as a whole
LongerRestoredWhole ==
    (\E q \in CallPairs : ProperSubstring(q.fake_value, d_entities[1].fake_value))
    => \A i \in Occurrences(d_args.text, d_entities[1].fake_value) : ReplacedWhole(i)

\* a pair replaces no character of an occurrence of a longer fake value that
\* contains its own
LongerNotRewritten ==
    \A p \in CallPairs :
        ProperSubstring(d_entities[1].fake_value, p.fake_value)
        => \A i \in Occurrences(d_args.text, p.fake_value) :
               ReplacedOrigins \cap (i..(i + Len(p.fake_value) - 1)) = {}

OrderAndReplacement == [][StepDeanonIter => LongestFirst /\ EveryOccurrenceReplaced]_vars

\* C18: deanonymize_text takes the pairs in descending length of fake_value
\* and replaces every occurrence of each; when a fake value is a proper
\* substring of another, every occurrence of the longer one in the text is
\* replaced as a whole by the longer pair and no character of it is replaced
\* by the shorter pair.
C18_LongerFakeRestoredFirst ==
    [][StepDeanonIter => /\ LongestFirst
                         /\ EveryOccurrenceReplaced
                         /\ LongerRestoredWhole
                         /\ LongerNotRewritten]_vars

\* txt contains a fake value of the map
HasFakeValue(txt, map) ==
    \E i \in DOMAIN map : Contains(txt, ProcessedEntities(map)[i].fake_value)

C20_DictMapEquivalent ==
    /\ \A i \in DOMAIN entities_map :
           LET entity == entities_map[i][2]
               dict == DictMap(entities_map)[i][2]
           IN  /\ DictMap(entities_map)[i][1] = entities_map[i][1]
               /\ DOMAIN dict = {"original_value", "entity_type", "fake_value",
                                 "confidence", "metadata"}
               /\ dict["fake_value"] = entity.fake_value
               /\ dict["original_value"] = entity.original_value
    /\ \A i, j \in DOMAIN runs :
           (runs[i].text = runs[j].text /\ runs[i].form = "object" /\ runs[j].form = "dict")
           => runs[i].result = runs[j].result

\* the same text was restored with the objects and with the dicts of a map of
\* two pairs, and both fake values were replaced
C20_Witness ==
    /\ Len(runs) = 2
    /\ Len(entities_map) = 2
    /\ runs[1].form = "object" /\ runs[2].form = "dict"
    /\ runs[1].text = anonymized_text /\ runs[2].text = anonymized_text
    /\ \A i \in DOMAIN entities_map :
           /\ Contains(anonymized_text, entities_map[i][2].fake_value)
           /\ Contains(runs[2].result.anonymized_data, entities_map[i][2].original_value)
    /\ runs[2].result.anonymized_data # anonymized_text
    /\ runs[2].result.anonymized_data = runs[1].result.anonymized_data

----------------------------------------------------------------------------
(* Properties of RedisCache (SpecRedis) *)

\* get(key) is called
StepRedisGet(key) == pc = "redis" /\ op'.name = "get" /\ op'.key = key

\* set(key, value) is called
StepRedisSet == pc = "redis" /\ op'.name = "set"

\* the value is a detection result: a list of EntityMatch objects
IsDetectionResult(value) ==
    value.type = "list" /\ \A i \in DOMAIN value.val : value.val[i].type = "EntityMatch"

\* C21: after set(k, v) of a detection result v, and before the key expires,
\* is cleared or is written by another client, get(k) returns a value equal
\* to v and raises nothing, as ThreadSafeLRUCache.get does.
C21_RedisGetReturnsStoredResult ==
    [][\A key \in RedisKeys :
          (/\ StepRedisGet(key)
           /\ key \in DOMAIN lastSet
           /\ IsDetectionResult(lastSet[key]))
          => /\ raised' = ""
             /\ ret' = lastSet[key]
             /\ ret' = LruGet(lastSet, <<key>>, key).ret]_vars

\* the bytes under the key are not JSON
NotJson(store, formatted_key) ==
    /\ formatted_key \in DOMAIN store
    /\ JsonLoads(store[formatted_key].value).raised # ""

\* get on bytes that are text but not JSON is a miss
InvalidJsonIsMiss ==
    [][\A key \in RedisKeys :
          (/\ StepRedisGet(key)
           /\ NotJson(_redis, _format_key(_key_prefix, key))
           /\ JsonLoads(_redis[_format_key(_key_prefix, key)].value).raised = "JSONDecodeError")
          => raised' = "" /\ ret' = PyNone]_vars

\* set of a value json.dumps rejects returns normally and writes nothing
UnserializableIsSkipped ==
    [][(StepRedisSet /\ JsonDumps(op'.value).raised # "")
       => raised' = "" /\ commands' = <<>> /\ _redis' = _redis]_vars

\* C22: get returns None and raises nothing when the bytes under the
\* prefixed key cannot be decoded as JSON; set of a value that cannot be
\* serialized raises nothing and writes nothing.
C22_SerializationFailuresSwallowed ==
    [][/\ \A key \in RedisKeys :
             (StepRedisGet(key) /\ NotJson(_redis, _format_key(_key_prefix, key)))
             => raised' = "" /\ ret' = PyNone
       /\ (StepRedisSet /\ JsonDumps(op'.value).raised # "")
          => raised' = "" /\ commands' = <<>> /\ _redis' = _redis]_vars

\* a cache built with a positive expiration_time writes with that time to live
PositiveExpirationIsTtl ==
    [][(/\ StepRedisSet
        /\ JsonDumps(op'.value).raised = ""
        /\ ~IsNone(r_args.expiration_time)
        /\ r_args.expiration_time[1] > 0)
       => commands' = <<Command("setex", _format_key(_key_prefix, op'.key),
                                r_args.expiration_time[1], JsonDumps(op'.value).text)>>]_vars

\* C23: a cache built with expiration_time=0 writes the prefixed key with a
\* plain set and no time to live; a cache built with a positive
\* expiration_time writes it with exactly that time to live.
C23_ZeroMeansNoExpiration ==
    [][(/\ StepRedisSet
        /\ JsonDumps(op'.value).raised = ""
        /\ ~IsNone(r_args.expiration_time))
       => LET formatted_key == _format_key(_key_prefix, op'.key)
              serialized_value == JsonDumps(op'.value).text
          IN  IF r_args.expiration_time[1] = 0
              THEN /\ commands' = <<Command("set", formatted_key, NoExpiry, serialized_value)>>
                   /\ _redis'[formatted_key].ttl = NoExpiry
              ELSE /\ commands' = <<Command("setex", formatted_key,
                                             r_args.expiration_time[1], serialized_value)>>
                   /\ _redis'[formatted_key].ttl = r_args.expiration_time[1]]_vars

----------------------------------------------------------------------------
(* Properties of _get_cache_key (SpecKey) *)

\* the calls of the trace: the indices of their "call" events
KeyCalls == {i \in DOMAIN trace : trace[i].event = "call"}

\* the requested entity types as a set
TypeSet(entities) == Range(entities)

\* one list is a reordering of the other
SameTypesReordered(a, b) ==
    /\ Len(a) = Len(b)
    /\ \A x \in Range(a) \cup Range(b) :
           Cardinality({i \in DOMAIN a : a[i] = x}) = Cardinality({i \in DOMAIN b : b[i] = x})

\* C24: two requests with the same text and language whose entity types are
\* reorderings of each other get the same key; two requests that differ in
\* the language or in the set of entity types get different keys.
C24_KeyIgnoresOrderOnly ==
    \A i, j \in KeyCalls :
        LET a == trace[i].key
            b == trace[j].key
            ka == trace[i + 1].key
            kb == trace[j + 1].key
        IN  /\ (/\ a.text = b.text /\ a.language = b.language
                /\ SameTypesReordered(a.entities, b.entities)) => ka = kb
            /\ (a.language # b.language \/ TypeSet(a.entities) # TypeSet(b.entities))
               => ka # kb

\* keys were returned for the same text and language with the two orders of
\* PERSON and LOCATION, and for another language
C24_Witness ==
    \E i, j, h \in KeyCalls :
        /\ trace[i].key.entities = <<"PERSON", "LOCATION">>
        /\ trace[j].key.entities = <<"LOCATION", "PERSON">>
        /\ trace[i].key.text = trace[j].key.text
        /\ trace[i].key.language = trace[j].key.language
        /\ trace[i + 1].key = trace[j + 1].key
        /\ trace[h].key.language # trace[i].key.language
        /\ trace[h].key.text = trace[i].key.text
        /\ trace[h].key.entities = trace[i].key.entities
        /\ trace[h + 1].key # trace[i + 1].key

----------------------------------------------------------------------------
(* Properties of NoCacheStrategy (SpecNoCache) *)

\* C25: after any sequence of set and clear calls NoCacheStrategy.get
\* returns None for every key, and no call of get, set or clear raises or
\* stores anything.
C25_NoCacheAlwaysMisses ==
    /\ raised = ""
    /\ _cache = EmptyDict /\ _access_order = <<>>
    /\ op.name = "get" => ret = None

\* get was called for a key after a set of that key and a clear and a later
\* set of it
C25_Witness ==
    /\ Len(trace) >= 3
    /\ op.name = "get"
    /\ op.key \in DOMAIN lastSet
    /\ trace[Len(trace) - 1] = Event("set", op.key)
    /\ \E i \in DOMAIN trace : trace[i].event \in {"clear", "set"} /\ i < Len(trace) - 1
    /\ ret = None /\ raised = ""

----------------------------------------------------------------------------
(* Properties of the fake value generator (SpecUnknown) *)

\* an iteration of the loop of _anonymize_entities is taken
StepAnonIter == pc = "anonymizing" /\ todo # <<>> /\ todo' = Tail(todo)

\* value is f"[{entity_type}_{suffix}]" with a suffix of eight hex digits
IsPlaceholder(value, entity_type) ==
    LET n == Len(Chars(entity_type))
    IN  /\ Len(value) = n + 11
        /\ value[1] = "["
        /\ SubSeq(value, 2, n + 1) = Chars(entity_type)
        /\ value[n + 2] = "_"
        /\ \A i \in (n + 3)..(n + 10) : value[i] \in HexDigits
        /\ value[n + 11] = "]"

\* C26: for an entity whose type has no generator in the language of the
\* run (and no custom generator), the iteration of _anonymize_entities does
\* not raise and substitutes the placeholder [<entity_type>_<suffix>], which
\* it also records in the map; the run does not fail.
C26_UnknownTypeGetsPlaceholder ==
    [][(/\ StepAnonIter
        /\ Head(todo).entity_type \notin RegisteredTypes(config.language)
        /\ Head(todo).entity_type \notin DOMAIN config.custom_fake_generators)
       => LET entity == Head(todo)
              fake_value == calls'[Len(calls')][2]
          IN  /\ raised' = ""
              /\ pc' \in {"anonymizing", "anonymized"}
              /\ IsPlaceholder(fake_value, entity.entity_type)
              /\ anonymized_text' = SubstituteSpan(anonymized_text, entity, fake_value)
              /\ DictGet(entities_map',
                         generate_entity_id(entity.entity_type, entity.text)).fake_value
                 = fake_value]_vars

\* a German run ended after it replaced an UNKNOWN_TYPE entity and a US_SSN
\* entity, which has a generator in English only, by placeholders
C26_Witness ==
    /\ pc = "anonymized"
    /\ raised = ""
    /\ config.language = "de"
    /\ \E i, j \in DOMAIN calls :
           /\ calls[i][1].entity_type = "UNKNOWN_TYPE"
           /\ IsPlaceholder(calls[i][2], "UNKNOWN_TYPE")
           /\ calls[j][1].entity_type = "US_SSN"
           /\ IsPlaceholder(calls[j][2], "US_SSN")
    /\ Contains(anonymized_text, <<"[">> \o Chars("UNKNOWN_TYPE") \o <<"_">>)

----------------------------------------------------------------------------
(* Properties of generate_entity_id (SpecId) *)

\* the calls of generate_entity_id: the indices of their "call" events
EntityIdCalls == {i \in DOMAIN trace : trace[i].event = "call"}

\* id is the characters of entity_type, "_" and eight hex digits
IsEntityId(id, entity_type) ==
    LET n == Len(Chars(entity_type))
    IN  /\ Len(id) = n + 9
        /\ SubSeq(id, 1, n) = Chars(entity_type)
        /\ id[n + 1] = "_"
        /\ \A k \in (n + 2)..(n + 9) : id[k] \in HexDigits

\* C27: two calls of generate_entity_id with the same entity type and the
\* same original value return the same id, whatever the generator instance,
\* its language and the values it generated before; every id returned is
\* the entity type, "_" and eight hex digits.
C27_EntityIdPureFunction ==
    \A i, j \in EntityIdCalls :
        LET a == trace[i].key
            b == trace[j].key
            id == trace[i + 1].key
        IN  /\ (a.entity_type = b.entity_type /\ a.original_value = b.original_value)
               => id = trace[j + 1].key
            /\ IsEntityId(id, a.entity_type)

\* the id PERSON_f334d290 was returned for ("PERSON", "a") by an English
\* generator that had generated nothing and by a German one after it
\* generated a value
C27_Witness ==
    \E i, j \in EntityIdCalls :
        /\ trace[i].key.entity_type = "PERSON" /\ trace[j].key.entity_type = "PERSON"
        /\ trace[i].key.original_value = <<"a">>
        /\ trace[j].key.original_value = <<"a">>
        /\ trace[i + 1].key =
               <<"P", "E", "R", "S", "O", "N", "_", "f", "3", "3", "4", "d", "2", "9", "0">>
        /\ trace[i].key.self.language = "en" /\ trace[i].key.self.generated = 0
        /\ trace[j].key.self.language = "de" /\ trace[j].key.self.generated = 1
        /\ trace[i + 1].key = trace[j + 1].key

----------------------------------------------------------------------------
(* Properties of the merge on chains of overlapping matches (Spec) *)

RECURSIVE TotalConfidence(_)
\* the sum of the confidences of the matches of s
TotalConfidence(s) ==
    IF s = <<>> THEN 0 ELSE s[1].confidence + TotalConfidence(Tail(s))

\* the total confidence of the matches of s at the indices of chosen
TotalOf(s, chosen) ==
    TotalConfidence([i \in DOMAIN s |-> IF i \in chosen THEN s[i]
                                        ELSE [confidence |-> 0]])

\* the highest total confidence of a set of matches of s no two of which overlap
BestTotal(s) ==
    LET disjoint == {chosen \in SUBSET DOMAIN s :
                        \A i, j \in chosen : i # j => ~Overlap(s[i], s[j])}
    IN  CHOOSE best \in {TotalOf(s, chosen) : chosen \in disjoint} :
            \A chosen \in disjoint : TotalOf(s, chosen) <= best

\* s is a chain of three matches around s[b]: s[b] overlaps the two others,
\* which are disjoint; s[b] has a higher confidence than either of them and a
\* lower one than the two together
ChainAround(s, b) ==
    /\ Len(s) = 3 /\ b \in 1..3
    /\ \A o \in (1..3) \ {b} :
           Overlap(s[b], s[o]) /\ s[b].confidence > s[o].confidence
    /\ \A o, q \in (1..3) \ {b} : o # q => ~Overlap(s[o], s[q])
    /\ TotalOf(s, (1..3) \ {b}) > s[b].confidence

\* C28: the total confidence of the result of _merge_overlapping_entities is
\* never above that of the best set of non-overlapping input matches, and it
\* is below it for the chains of three matches whose middle match has the
\* highest confidence but less than the two outer matches together: the merge
\* returns the middle match alone.
C28_GreedyNotOptimal ==
    pc = "merged" =>
        /\ TotalConfidence(merged) <= BestTotal(filtered)
        /\ \A b \in 1..3 :
               ChainAround(filtered, b) =>
                   /\ merged = <<filtered[b]>>
                   /\ TotalConfidence(merged) < BestTotal(filtered)

\* the merge has returned the middle match of a chain, of confidence 0.9,
\* where the two outer matches, of confidence 0.5 each, do not overlap
C28_Witness ==
    /\ pc = "merged"
    /\ \E b \in 1..3 : ChainAround(filtered, b) /\ merged = <<filtered[b]>>
    /\ TotalConfidence(merged) = 9
    /\ BestTotal(filtered) = 10

\* C29: every match of the input of _merge_overlapping_entities that is not
\* in its result overlaps a match of the result.
C29_DroppedOverlapsRetained ==
    pc = "merged" =>
        \A i \in DOMAIN filtered :
            filtered[i] \notin Range(merged)
                => \E j \in DOMAIN merged : Overlap(filtered[i], merged[j])

----------------------------------------------------------------------------
(* Properties of the recency list of ThreadSafeLRUCache (SpecCache) *)

\* the number of times key is in _access_order
TimesListed(key) == Cardinality({i \in DOMAIN _access_order : _access_order[i] = key})

\* C30: after any sequence of get, set and clear on a cache with maxsize >= 1,
\* _access_order holds every stored key exactly once and no other key, at most
\* maxsize entries are stored, and no operation has raised.
C30_RecencyListAndCapacity ==
    pc = "cache" =>
        /\ \A key \in DOMAIN _cache : TimesListed(key) = 1
        /\ \A key \in Keys \ DOMAIN _cache : TimesListed(key) = 0
        /\ Cardinality(DOMAIN _cache) <= maxsize
        /\ raised = ""

\* a cache of maxsize 2 is full after a key was evicted or cleared, and the
\* last operation, a get that hit, moved its key to the end of the list
C30_Witness ==
    /\ pc = "cache"
    /\ maxsize = 2
    /\ Cardinality(DOMAIN _cache) = maxsize
    /\ \E key \in Range(history) : key \notin DOMAIN _cache
    /\ op.name = "get" /\ ret # None
    /\ Len(_access_order) = 2 /\ _access_order[2] = op.key
    /\ TimesListed(op.key) = 1

====
